---- MODULE Spec2Model ----
(***************************************************************************)
(* Four-pillars (saju) engine of app_mobile.py: sexagenary pillar          *)
(* arithmetic, ten-god classifier, pattern (geok) classifier and the       *)
(* decade-cycle generator.                                                  *)
(*                                                                         *)
(* Stems and branches are the strings of CHEONGAN / JIJI, romanised        *)
(* (the stem 'sin' and the branch 'sin' are the same string, as in the     *)
(* source).  Elements: mok hwa to geum su.  Polarity: yang eum.            *)
(***************************************************************************)
EXTENDS Integers, Sequences, FiniteSets, TLC

VARIABLES
    pc,          \* position of the computation: "call" (inputs set) or "done"
    day_stem,    \* ten_god_for_stem: first argument
    other_stem,  \* ten_god_for_stem: second argument
    six,         \* ten_god_for_stem: returned label
    inp,         \* decide_geok: the Inputs record
    geok,        \* decide_geok: returned (label, why)
    dt_solar,    \* four_pillars_from_solar: queried solar datetime
    k_anchor,    \* four_pillars_from_solar: day-pillar anchor
    jie_raw,     \* jie_times_from_kasi_or_calc(dt_solar.year, key).terms
    fp,          \* four_pillars_from_solar: returned FourPillars
    sex,         \* result section: subject's sex
    forward,     \* result section: decade-cycle direction
    local_dt,    \* result section: dt_local, the wall-clock birth datetime
    rf,          \* find_longitude_time_local: its locals (a, b, scan, fa, found, ...)
    kasi,        \* the term-source collaborator: what its queries answer
    jt,          \* jie_times_from_kasi_or_calc: call arguments, outcome, table
    builds,      \* term tables built so far in the session, in order
    start_age,   \* result section: dayun_start_age(...)
    wolun,       \* build_wolun_strip_for_year: year asked and returned items
    dayun_list,  \* build_dayun_list_indices: returned entries
    ilun_list,   \* build_ilun_strip: returned entries
    fp_next      \* four_pillars_from_solar at the later of two instants

\* the variables of the term-table, root-finder and cycle computations
more_vars == <<dayun_list, ilun_list, fp_next>>
ext_vars == <<local_dt, rf, kasi, jt, builds, start_age, wolun, dayun_list, ilun_list, fp_next>>

vars == <<pc, day_stem, other_stem, six, inp, geok, dt_solar, k_anchor,
          jie_raw, fp, sex, forward, local_dt, rf, kasi, jt, builds, start_age, wolun,
          dayun_list, ilun_list, fp_next>>

None == "none"

MoreIdle == dayun_list = None /\ ilun_list = None /\ fp_next = None

ExtIdle ==
    /\ local_dt = None /\ rf = None /\ kasi = None /\ jt = None
    /\ builds = None /\ start_age = None /\ wolun = None
    /\ MoreIdle

ToSet(s) == {s[i] : i \in DOMAIN s}

(***************************************************************************)
(* Tables                                                                  *)
(***************************************************************************)
CHEONGAN == <<"gap","eul","byeong","jeong","mu","gi","gyeong","sin","im","gye">>
JIJI == <<"ja","chuk","in","myo","jin","sa","o","mi","sin","yu","sul","hae">>
MONTH_JI == <<"in","myo","jin","sa","o","mi","sin","yu","sul","hae","ja","chuk">>

\* list.index(x): 0-based position of the first occurrence
IndexOf(seq, x) == (CHOOSE i \in DOMAIN seq : seq[i] = x /\ \A j \in 1..(i-1) : seq[j] # x) - 1

STEM_ELEM == [gap |-> "mok", eul |-> "mok", byeong |-> "hwa", jeong |-> "hwa",
              mu |-> "to", gi |-> "to", gyeong |-> "geum", sin |-> "geum",
              im |-> "su", gye |-> "su"]
STEM_YINYANG == [gap |-> "yang", eul |-> "eum", byeong |-> "yang", jeong |-> "eum",
                 mu |-> "yang", gi |-> "eum", gyeong |-> "yang", sin |-> "eum",
                 im |-> "yang", gye |-> "eum"]
BRANCH_MAIN_STEM == [ja |-> "gye", chuk |-> "gi", in |-> "gap", myo |-> "eul",
                     jin |-> "mu", sa |-> "byeong", o |-> "jeong", mi |-> "gi",
                     sin |-> "gyeong", yu |-> "sin", sul |-> "mu", hae |-> "im"]
SAMHAP_GROUP == [hwa |-> {"in","o","sul"}, mok |-> {"hae","myo","mi"},
                 su |-> {"sin","ja","jin"}, geum |-> {"sa","yu","chuk"}]
MONTH_TO_SAMHAP_ELEM == [in |-> "hwa", o |-> "hwa", sul |-> "hwa",
                         hae |-> "mok", myo |-> "mok", mi |-> "mok",
                         sin |-> "su", ja |-> "su", jin |-> "su",
                         sa |-> "geum", yu |-> "geum", chuk |-> "geum"]
ELEM_PRODUCE == [mok |-> "hwa", hwa |-> "to", to |-> "geum", geum |-> "su", su |-> "mok"]
ELEM_CONTROL == [mok |-> "to", hwa |-> "geum", to |-> "su", geum |-> "mok", su |-> "hwa"]
\* {v:k for k,v in D.items()}
InvertDict(D) == [v \in {D[k] : k \in DOMAIN D} |-> CHOOSE k \in DOMAIN D : D[k] = v]
ELEM_OVERCOME_ME == InvertDict(ELEM_CONTROL)
ELEM_PRODUCE_ME == InvertDict(ELEM_PRODUCE)

BRANCH_HIDDEN == [ja |-> <<"im","gye">>, chuk |-> <<"gye","sin","gi">>,
                  in |-> <<"mu","byeong","gap">>, myo |-> <<"gap","eul">>,
                  jin |-> <<"eul","gye","mu">>, sa |-> <<"mu","gyeong","byeong">>,
                  o |-> <<"byeong","gi","jeong">>, mi |-> <<"jeong","eul","gi">>,
                  sin |-> <<"mu","im","gyeong">>, yu |-> <<"gyeong","sin">>,
                  sul |-> <<"sin","jeong","mu">>, hae |-> <<"mu","gap","im">>]

stems_of_element(elem) ==
    [mok |-> <<"gap","eul">>, hwa |-> <<"byeong","jeong">>, to |-> <<"mu","gi">>,
     geum |-> <<"gyeong","sin">>, su |-> <<"im","gye">>][elem]

stem_with_polarity_swapped(elem, parity) ==
    IF parity = "yang" THEN stems_of_element(elem)[2] ELSE stems_of_element(elem)[1]

stem_with_polarity(elem, parity) ==
    IF parity = "yang" THEN stems_of_element(elem)[1] ELSE stems_of_element(elem)[2]

(***************************************************************************)
(* Ten-god classifier                                                      *)
(***************************************************************************)
ten_god_for_stem_swapped(ds, os) ==
    LET d_e == STEM_ELEM[ds]  d_p == STEM_YINYANG[ds]
        o_e == STEM_ELEM[os]  o_p == STEM_YINYANG[os]
    IN  IF o_e = d_e THEN (IF o_p = d_p THEN "bigyeon" ELSE "geopjae")
        ELSE IF o_e = ELEM_PRODUCE[d_e] THEN (IF o_p = d_p THEN "siksin" ELSE "sanggwan")
        ELSE IF o_e = ELEM_CONTROL[d_e] THEN (IF o_p = d_p THEN "pyeonjae" ELSE "jeongjae")
        ELSE IF o_e = ELEM_PRODUCE_ME[d_e] THEN (IF o_p = d_p THEN "pyeongwan" ELSE "jeonggwan")
        ELSE IF o_e = ELEM_OVERCOME_ME[d_e] THEN (IF o_p = d_p THEN "pyeonin" ELSE "jeongin")
        ELSE "mijeong"

ten_god_for_stem_short(ds, os) ==
    LET d_e == STEM_ELEM[ds]  d_p == STEM_YINYANG[ds]
        o_e == STEM_ELEM[os]  o_p == STEM_YINYANG[os]
    IN  IF o_e = d_e THEN (IF o_p = d_p THEN "bigyeon" ELSE "geopjae")
        ELSE IF o_e = ELEM_PRODUCE[d_e] THEN (IF o_p = d_p THEN "siksin" ELSE "sanggwan")
        ELSE IF o_e = ELEM_CONTROL[d_e] THEN (IF o_p = d_p THEN "pyeonjae" ELSE "jeongjae")
        ELSE IF o_e = ELEM_OVERCOME_ME[d_e] THEN (IF o_p = d_p THEN "pyeongwan" ELSE "jeonggwan")
        ELSE "mijeong"

ten_god_for_stem(ds, os) ==
    LET d_e == STEM_ELEM[ds]  d_p == STEM_YINYANG[ds]
        o_e == STEM_ELEM[os]  o_p == STEM_YINYANG[os]
    IN  IF o_e = d_e THEN (IF o_p = d_p THEN "bigyeon" ELSE "geopjae")
        ELSE IF o_e = ELEM_PRODUCE[d_e] THEN (IF o_p = d_p THEN "siksin" ELSE "sanggwan")
        ELSE IF o_e = ELEM_CONTROL[d_e] THEN (IF o_p = d_p THEN "pyeonjae" ELSE "jeongjae")
        ELSE IF o_e = ELEM_OVERCOME_ME[d_e] THEN (IF o_p = d_p THEN "pyeongwan" ELSE "jeonggwan")
        ELSE IF o_e = ELEM_PRODUCE_ME[d_e] THEN (IF o_p = d_p THEN "pyeonin" ELSE "jeongin")
        ELSE "mijeong"

ten_god_for_branch(ds, branch) == ten_god_for_stem(ds, BRANCH_MAIN_STEM[branch])

(***************************************************************************)
(* Pattern (geok) classifier                                               *)
(***************************************************************************)
is_first_half_by_terms(dt, first_term_dt, mid_term_dt) ==
    first_term_dt <= dt /\ dt < mid_term_dt

\* [s for s in seq if s in set]
FilterIn(seq, set) == SelectSeq(seq, LAMBDA s : s \in set)
\* [s for s in seq if STEM_ELEM.get(s) == elem]
OfElem(seq, elem) == SelectSeq(seq, LAMBDA s : STEM_ELEM[s] = elem)
\* [s for s in seq if STEM_YINYANG[s] != p]
OppPolarity(seq, p) == SelectSeq(seq, LAMBDA s : STEM_YINYANG[s] # p)
Opposite(p) == IF p = "yang" THEN "eum" ELSE "yang"

Ret(label, tag, rule, pick) == [label |-> label, tag |-> tag, rule |-> rule, pick |-> pick]

\* lines 326-346: the special gate
geok_special(ds, mb, stems, branches) ==
    LET ds_e == STEM_ELEM[ds]
        ds_p == STEM_YINYANG[ds]
        mb_p == STEM_YINYANG[BRANCH_MAIN_STEM[mb]]
        visible_set == ToSet(stems)
        off_e == ELEM_OVERCOME_ME[ds_e]
        jung_gwan == stem_with_polarity(off_e, Opposite(ds_p))
        pyeon_gwan == stem_with_polarity(off_e, ds_p)
        same_polarity == (ds_p = mb_p)
        any_jung_br == \E i \in DOMAIN branches : ten_god_for_branch(ds, branches[i]) = "jeonggwan"
        any_pyeon_br == \E i \in DOMAIN branches : ten_god_for_branch(ds, branches[i]) = "pyeongwan"
    IN  IF same_polarity
        THEN IF (jung_gwan \in visible_set) \/ any_jung_br
             THEN Ret("geonrokgyeok", "teuksu", "wolbi+jeonggwan",
                      IF jung_gwan \in visible_set THEN jung_gwan ELSE None)
             ELSE Ret("wolbigyeok", "teuksu", "wolbi", None)
        ELSE IF (pyeon_gwan \in visible_set) \/ any_pyeon_br
             THEN Ret("yangingyeok", "teuksu", "wolgeop+pyeongwan",
                      IF pyeon_gwan \in visible_set THEN pyeon_gwan ELSE None)
             ELSE Ret("wolgeopgyeok", "teuksu", "wolgeop", None)

\* lines 348-357: ja/o/myo/yu group
geok_jaomyoyu(ds, mb, stems) ==
    LET ds_p == STEM_YINYANG[ds]
        mb_main == BRANCH_MAIN_STEM[mb]
        month_elem == STEM_ELEM[mb_main]
        same_elem_visible == OfElem(stems, month_elem)
    IN  IF same_elem_visible # <<>>
        THEN LET opp == OppPolarity(same_elem_visible, ds_p)
                 pick == IF opp # <<>> THEN opp[1] ELSE same_elem_visible[1]
             IN  Ret(ten_god_for_stem(ds, pick) \o "gyeok", "jaomyoyu", "tugan", pick)
        ELSE Ret(ten_god_for_stem(ds, mb_main) \o "gyeok", "jaomyoyu", "bongi", mb_main)

\* lines 358-394: in/sin/sa/hae group
geok_inshinsahae(ds, mb, ms, stems, branches, first_half) ==
    LET rokji == BRANCH_MAIN_STEM[mb]
        month_elem == STEM_ELEM[rokji]
        base_stems == ToSet(stems_of_element(month_elem))
        base_visible == FilterIn(stems, base_stems)
        tri_elem == MONTH_TO_SAMHAP_ELEM[mb]
        others == SAMHAP_GROUP[tri_elem] \ {mb}
        tri_visible == FilterIn(stems_of_element(tri_elem), ToSet(stems))
        rest == IF ms # ""
                THEN Ret(ten_god_for_stem(ds, ms) \o "gyeok", "inshinsahae", "wolgan", ms)
                ELSE Ret(ten_god_for_stem(ds, rokji) \o "gyeok", "inshinsahae", "bongi", rokji)
    IN  IF base_visible # <<>>
        THEN LET pick == base_visible[1]
                 off_e == ELEM_OVERCOME_ME[STEM_ELEM[ds]]
                 jung_gwan == stem_with_polarity(off_e, Opposite(STEM_YINYANG[ds]))
                 pyeon_gwan == stem_with_polarity(off_e, STEM_YINYANG[ds])
             IN  IF month_elem = STEM_ELEM[ds] /\ STEM_YINYANG[pick] = STEM_YINYANG[ds]
                    /\ jung_gwan \in ToSet(stems)
                 THEN Ret("geonrokgyeok", "inshinsahae", "rokji+jeonggwan", pick)
                 ELSE IF month_elem = STEM_ELEM[ds] /\ STEM_YINYANG[pick] # STEM_YINYANG[ds]
                         /\ pyeon_gwan \in ToSet(stems)
                 THEN Ret("yangingyeok", "inshinsahae", "rokji+pyeongwan", pick)
                 ELSE Ret(ten_god_for_stem(ds, pick) \o "gyeok", "inshinsahae", "rokji", pick)
        ELSE IF others \subseteq ToSet(branches) /\ first_half
        THEN IF tri_visible # <<>> /\ tri_elem # STEM_ELEM[ds]
             THEN LET opp == OppPolarity(tri_visible, STEM_YINYANG[ds])
                      pick == IF opp # <<>> THEN opp[1] ELSE tri_visible[1]
                  IN  Ret("junggigyeok(" \o ten_god_for_stem(ds, pick) \o ")",
                          "inshinsahae", "samhap+junggi+tugan", pick)
             ELSE IF tri_visible = <<>> /\ tri_elem # STEM_ELEM[ds]
             THEN Ret("junggisangsaenggyeok", "inshinsahae", "samhap+junggi", None)
             ELSE rest
        ELSE rest

\* line 412: month_hiddens[1] if len(month_hiddens)>=2 else month_hiddens[-1]
mid_qi_of(month_hiddens) ==
    IF Len(month_hiddens) >= 2 THEN month_hiddens[2] ELSE month_hiddens[Len(month_hiddens)]

\* line 402
is_front12_lt(day_from_jieqi) == day_from_jieqi < 11
is_front12(day_from_jieqi) == day_from_jieqi <= 11

\* lines 395-446: jin/sul/chuk/mi group
geok_jinsulchukmi(ds, mb, stems, branches, day_from_jieqi) ==
    LET tri_elem == MONTH_TO_SAMHAP_ELEM[mb]
        others == SAMHAP_GROUP[tri_elem] \ {mb}
        partners == others \cap ToSet(branches)
        month_hiddens == BRANCH_HIDDEN[mb]
        mb_main == BRANCH_MAIN_STEM[mb]
        visible_set == ToSet(stems)
        front12 == is_front12(day_from_jieqi)
        ds_p == STEM_YINYANG[ds]
    IN  IF partners # {}
        THEN IF tri_elem = STEM_ELEM[ds]
             THEN Ret(ten_god_for_stem(ds, mb_main) \o "gyeok", "jinsulchukmi", "banhap-dongil", mb_main)
             ELSE LET tri_visible == FilterIn(stems_of_element(tri_elem), visible_set)
                      mid_qi == mid_qi_of(month_hiddens)
                      mid_is_tri == (STEM_ELEM[mid_qi] = tri_elem)
                      pick == IF tri_visible # <<>>
                              THEN IF Len(tri_visible) >= 2 /\ mid_is_tri /\ mid_qi \in ToSet(tri_visible)
                                   THEN mid_qi
                                   ELSE IF Len(tri_visible) = 1 THEN tri_visible[1]
                                        ELSE IF mid_is_tri THEN mid_qi ELSE tri_visible[1]
                              ELSE IF mid_is_tri THEN mid_qi
                                   ELSE stem_with_polarity(tri_elem, Opposite(ds_p))
                  IN  Ret(ten_god_for_stem(ds, pick) \o "gyeok", "jinsulchukmi", "banhap", pick)
        ELSE IF front12
        THEN LET yeogi == month_hiddens[1]
                 y_elem == STEM_ELEM[yeogi]
                 same_elem_visible == OfElem(stems, y_elem)
                 opp_first == OppPolarity(same_elem_visible, ds_p)
             IN  IF opp_first # <<>>
                 THEN Ret(ten_god_for_stem(ds, opp_first[1]) \o "gyeok", "jinsulchukmi",
                          "front12:yeogi-tugan-useon", opp_first[1])
                 ELSE IF same_elem_visible # <<>>
                 THEN Ret(ten_god_for_stem(ds, same_elem_visible[1]) \o "gyeok", "jinsulchukmi",
                          "front12:yeogi-dongil-ohaeng-tugan", same_elem_visible[1])
                 ELSE Ret(ten_god_for_stem(ds, yeogi) \o "gyeok", "jinsulchukmi",
                          "front12:yeogi", yeogi)
        ELSE LET earth_vis == FilterIn(<<"mu","gi">>, visible_set)
                 opp == OppPolarity(earth_vis, ds_p)
             IN  IF earth_vis # <<>>
                 THEN LET pick == IF opp # <<>> THEN opp[1] ELSE earth_vis[1]
                      IN  Ret(ten_god_for_stem(ds, pick) \o "gyeok", "jinsulchukmi",
                              "after12:juwangto-tugan", pick)
                 ELSE Ret(ten_god_for_stem(ds, mb_main) \o "gyeok", "jinsulchukmi",
                          "after12:bongi", mb_main)

\* the storage group's same-element triad case handed to the special rule
decide_geok_storage_special(I) ==
    LET ds == I.day_stem
        mb == I.month_branch
        ds_e == STEM_ELEM[ds]
        mb_e == STEM_ELEM[BRANCH_MAIN_STEM[mb]]
        tri_elem == MONTH_TO_SAMHAP_ELEM[mb]
        partners == (SAMHAP_GROUP[tri_elem] \ {mb}) \cap ToSet(I.branches_visible)
    IN  IF mb \in {"ja","o","myo","yu","in","sin","sa","hae"} /\ ds_e = mb_e
        THEN geok_special(ds, mb, I.stems_visible, I.branches_visible)
        ELSE IF mb \in {"ja","o","myo","yu"} THEN geok_jaomyoyu(ds, mb, I.stems_visible)
        ELSE IF mb \in {"in","sin","sa","hae"}
        THEN geok_inshinsahae(ds, mb, I.month_stem, I.stems_visible, I.branches_visible,
                              is_first_half_by_terms(I.solar_dt, I.first_term_dt, I.mid_term_dt))
        ELSE IF partners # {} /\ tri_elem = ds_e
        THEN geok_special(ds, mb, I.stems_visible, I.branches_visible)
        ELSE geok_jinsulchukmi(ds, mb, I.stems_visible, I.branches_visible, I.day_from_jieqi)

\* the special gate left out
decide_geok_nogate(I) ==
    LET ds == I.day_stem
        mb == I.month_branch
    IN  IF mb \in {"ja","o","myo","yu"} THEN geok_jaomyoyu(ds, mb, I.stems_visible)
        ELSE IF mb \in {"in","sin","sa","hae"}
        THEN geok_inshinsahae(ds, mb, I.month_stem, I.stems_visible, I.branches_visible,
                              is_first_half_by_terms(I.solar_dt, I.first_term_dt, I.mid_term_dt))
        ELSE geok_jinsulchukmi(ds, mb, I.stems_visible, I.branches_visible, I.day_from_jieqi)

\* the special gate entered for every month branch
decide_geok_gate12(I) ==
    LET ds == I.day_stem
        mb == I.month_branch
        ds_e == STEM_ELEM[ds]
        mb_e == STEM_ELEM[BRANCH_MAIN_STEM[mb]]
    IN  IF ds_e = mb_e
        THEN geok_special(ds, mb, I.stems_visible, I.branches_visible)
        ELSE IF mb \in {"ja","o","myo","yu"} THEN geok_jaomyoyu(ds, mb, I.stems_visible)
        ELSE IF mb \in {"in","sin","sa","hae"}
        THEN geok_inshinsahae(ds, mb, I.month_stem, I.stems_visible, I.branches_visible,
                              is_first_half_by_terms(I.solar_dt, I.first_term_dt, I.mid_term_dt))
        ELSE geok_jinsulchukmi(ds, mb, I.stems_visible, I.branches_visible, I.day_from_jieqi)

\* lines 311-448.  The returned why-string is kept as its rule tag (the text in
\* brackets), the sub-rule it names and the stem it names.
decide_geok(I) ==
    LET ds == I.day_stem
        mb == I.month_branch
        ds_e == STEM_ELEM[ds]
        mb_e == STEM_ELEM[BRANCH_MAIN_STEM[mb]]
        grp == IF mb \in {"ja","o","myo","yu"} THEN "jaomyoyu"
               ELSE IF mb \in {"in","sin","sa","hae"} THEN "inshinsahae"
               ELSE "jinsulchukmi"
    IN  IF mb \in {"ja","o","myo","yu","in","sin","sa","hae"} /\ ds_e = mb_e
        THEN geok_special(ds, mb, I.stems_visible, I.branches_visible)
        ELSE IF grp = "jaomyoyu" THEN geok_jaomyoyu(ds, mb, I.stems_visible)
        ELSE IF grp = "inshinsahae"
        THEN geok_inshinsahae(ds, mb, I.month_stem, I.stems_visible, I.branches_visible,
                              is_first_half_by_terms(I.solar_dt, I.first_term_dt, I.mid_term_dt))
        ELSE IF grp = "jinsulchukmi"
        THEN geok_jinsulchukmi(ds, mb, I.stems_visible, I.branches_visible, I.day_from_jieqi)
        ELSE Ret(ten_god_for_stem(ds, BRANCH_MAIN_STEM[mb]) \o "gyeok", "fallback", "bongi",
                 BRANCH_MAIN_STEM[mb])

(***************************************************************************)
(* Pillar arithmetic used to build charts                                  *)
(***************************************************************************)
SIDU_START == <<<<{"gap","gi"}, "gap">>, <<{"eul","gyeong"}, "byeong">>,
                <<{"byeong","sin"}, "mu">>, <<{"jeong","im"}, "gyeong">>,
                <<{"mu","gye"}, "im">>>>

month_start_gan_idx_triple(year_gan_idx) == ((year_gan_idx % 5) * 3 + 2) % 10

month_start_gan_idx_odd(year_gan_idx) == ((year_gan_idx % 5) * 2 + 1) % 10

month_start_gan_idx(year_gan_idx) == ((year_gan_idx % 5) * 2 + 2) % 10

sidu_zi_start_gan_month(day_gan) ==
    CHEONGAN[month_start_gan_idx(IndexOf(CHEONGAN, day_gan)) + 1]

\* first pair of SIDU_START that holds day_gan; ValueError when there is none
sidu_zi_start_gan(day_gan) ==
    LET hits == SelectSeq(SIDU_START, LAMBDA p : day_gan \in p[1])
    IN  IF hits # <<>> THEN hits[1][2] ELSE "ValueError"

(***************************************************************************)
(* datetime: [t, tz]: t is the wall-clock reading in minutes,              *)
(* toordinal() * 1440 + hour * 60 + minute, and tz = [name, off] the       *)
(* tzinfo object with its utcoffset in minutes.  Seconds are always zero:  *)
(* inputs are HHMM and find_longitude_time_local zeroes them (line 512).   *)
(***************************************************************************)
LOCAL_TZ == [name |-> "Asia/Seoul", off |-> 540]

IsLeap(y) == (y % 4 = 0) /\ ((y % 100 # 0) \/ (y % 400 = 0))
DaysInMonth(y, m) ==
    IF m = 2 THEN (IF IsLeap(y) THEN 29 ELSE 28)
    ELSE IF m \in {4, 6, 9, 11} THEN 30 ELSE 31
DaysBeforeMonth(y, m) ==
    <<0, 31, 59, 90, 120, 151, 181, 212, 243, 273, 304, 334>>[m]
    + (IF m > 2 /\ IsLeap(y) THEN 1 ELSE 0)
DaysBeforeYear(y) ==
    (y - 1) * 365 + (y - 1) \div 4 - (y - 1) \div 100 + (y - 1) \div 400

\* date(y, m, d).toordinal()
Ymd2Ord(y, m, d) == DaysBeforeYear(y) + DaysBeforeMonth(y, m) + d

\* date.fromordinal(n) as <<year, month, day>>
Ord2Ymd(ord) ==
    LET n0 == ord - 1
        n400 == n0 \div 146097
        r400 == n0 % 146097
        n100 == r400 \div 36524
        r100 == r400 % 36524
        n4 == r100 \div 1461
        r4 == r100 % 1461
        n1 == r4 \div 365
        n == r4 % 365
        year == n400 * 400 + 1 + n100 * 100 + n4 * 4 + n1
    IN  IF n1 = 4 \/ n100 = 4 THEN <<year - 1, 12, 31>>
        ELSE LET month == CHOOSE m \in 1..12 :
                     /\ DaysBeforeMonth(year, m) <= n
                     /\ n < DaysBeforeMonth(year, m) + DaysInMonth(year, m)
             IN  <<year, month, n - DaysBeforeMonth(year, month) + 1>>

DateTime(y, m, d, hh, mi, tz) ==
    [t |-> Ymd2Ord(y, m, d) * 1440 + hh * 60 + mi, tz |-> tz]

\* dt.date() as <<year, month, day>>, dt.year, dt.hour, dt.minute
DateOf(dt) == Ord2Ymd(dt.t \div 1440)
YearOf(dt) == DateOf(dt)[1]
HourOf(dt) == (dt.t % 1440) \div 60
MinuteOf(dt) == dt.t % 60

\* dt + timedelta(minutes=n): wall-clock arithmetic, tzinfo kept
AddMinutes(dt, n) == [t |-> dt.t + n, tz |-> dt.tz]
AddDays(dt, n) == AddMinutes(dt, n * 1440)

\* datetime.__lt__ of two aware datetimes: wall-clock fields when both carry
\* the same tzinfo object, UTC instants otherwise
DtLess(a, b) ==
    IF a.tz = b.tz THEN a.t < b.t ELSE a.t - a.tz.off < b.t - b.tz.off

BASE_MIN == 8 * 60 + 30
to_solar_time_plus(dt_local) ==
    LET off_min == dt_local.tz.off
        delta == off_min - BASE_MIN
    IN  AddMinutes(dt_local, delta)
to_solar_time(dt_local) ==
    LET off_min == dt_local.tz.off
        delta == off_min - BASE_MIN
    IN  AddMinutes(dt_local, -delta)

(***************************************************************************)
(* Term table                                                              *)
(***************************************************************************)
JIE_ORDER == <<"ipchun","gyeongchip","cheongmyeong","ipha","mangjong","soseo",
               "ipchu","baengno","hallo","ipdong","daeseol","sohan">>
PREV_DAESEOL == "(jeonnyeon)daeseol"
JIE_TO_MONTH_JI ==
    ("ipchun" :> "in") @@ ("gyeongchip" :> "myo") @@ ("cheongmyeong" :> "jin") @@
    ("ipha" :> "sa") @@ ("mangjong" :> "o") @@ ("soseo" :> "mi") @@
    ("ipchu" :> "sin") @@ ("baengno" :> "yu") @@ ("hallo" :> "sul") @@
    ("ipdong" :> "hae") @@ ("daeseol" :> "ja") @@ ("sohan" :> "chuk") @@
    (PREV_DAESEOL :> "ja")

TermNames == ToSet(JIE_ORDER) \cup {PREV_DAESEOL}

\* rough (month, day) seeds of approx_guess_local
ROUGH ==
    ("ipchun" :> <<2,4>>) @@ ("gyeongchip" :> <<3,6>>) @@
    ("cheongmyeong" :> <<4,5>>) @@ ("ipha" :> <<5,6>>) @@
    ("mangjong" :> <<6,6>>) @@ ("soseo" :> <<7,7>>) @@
    ("ipchu" :> <<8,8>>) @@ ("baengno" :> <<9,8>>) @@
    ("hallo" :> <<10,8>>) @@ ("ipdong" :> <<11,7>>) @@
    ("daeseol" :> <<12,7>>) @@ ("sohan" :> <<1,6>>)

\* approx_guess_local(year)[name]: the seed, 09:00 local
approx_guess_local(year, name) ==
    IF name = PREV_DAESEOL THEN DateTime(year - 1, 12, 7, 9, 0, LOCAL_TZ)
    ELSE DateTime(year, ROUGH[name][1], ROUGH[name][2], 9, 0, LOCAL_TZ)

\* compute_jie_times_calc: every term is find_longitude_time_local(seed), an
\* instant of the scanned window [seed - 3 days, seed + 3 days] with zero
\* seconds.  The longitude series is not modelled: the result is the seed
\* moved by `shift` minutes, |shift| <= 3 days, chosen by the environment.
compute_jie_times_calc(year, shift) ==
    [name \in TermNames |-> AddMinutes(approx_guess_local(year, name), shift)]

(***************************************************************************)
(* Day, hour, month and year pillars                                       *)
(***************************************************************************)
K_ANCHOR_DEFAULT == 49

\* the century correction B left out
jdn_0h_utc_julian(y0, m0, d) ==
    LET y == IF m0 <= 2 THEN y0 - 1 ELSE y0
        m == IF m0 <= 2 THEN m0 + 12 ELSE m0
    IN  (36525 * (y + 4716)) \div 100 + (306001 * (m + 1)) \div 10000 + d - 1524

\* int(365.25*(y + 4716)) and int(30.6001*(m + 1)) on non-negative arguments
jdn_0h_utc(y0, m0, d) ==
    LET y == IF m0 <= 2 THEN y0 - 1 ELSE y0
        m == IF m0 <= 2 THEN m0 + 12 ELSE m0
        A == y \div 100
        B == 2 - A + A \div 4
    IN  (36525 * (y + 4716)) \div 100 + (306001 * (m + 1)) \div 10000 + d + B - 1524

pillar_day_by_2300_after(dt) ==
    IF HourOf(dt) > 23 \/ (HourOf(dt) = 23 /\ MinuteOf(dt) > 0)
    THEN DateOf(AddDays(dt, 1)) ELSE DateOf(dt)

pillar_day_by_2300(dt) ==
    IF HourOf(dt) > 23 \/ (HourOf(dt) = 23 /\ MinuteOf(dt) >= 0)
    THEN DateOf(AddDays(dt, 1)) ELSE DateOf(dt)

day_ganji_solar(dt, k) ==
    LET d == pillar_day_by_2300(dt)
        idx60 == (jdn_0h_utc(d[1], d[2], d[3]) + k) % 60
        cidx == idx60 % 10
        jidx == idx60 % 12
    IN  [ganji |-> <<CHEONGAN[cidx + 1], JIJI[jidx + 1]>>, cidx |-> cidx, jidx |-> jidx]

hour_branch_idx_2300(dt) ==
    LET mins == HourOf(dt) * 60 + MinuteOf(dt)
        off == (mins - (23 * 60)) % 1440
    IN  off \div 120

\* list.sort(key=lambda x: x[1]): a stable sort, here by insertion
InsertByTime(sorted, x) ==
    LET k == Cardinality({i \in DOMAIN sorted : ~DtLess(x[2], sorted[i][2])})
    IN  SubSeq(sorted, 1, k) \o <<x>> \o SubSeq(sorted, k + 1, Len(sorted))
RECURSIVE SortFrom(_, _, _)
SortFrom(order, i, sorted) ==
    IF i > Len(order) THEN sorted
    ELSE SortFrom(order, i + 1, InsertByTime(sorted, order[i]))
SortByTime(order) == SortFrom(order, 1, <<>>)

\* for name, t in order: if dt_solar >= t: last = name else: break
RECURSIVE LastTermLoop(_, _, _, _)
LastTermLoop(order, i, dt, last) ==
    IF i > Len(order) THEN last
    ELSE IF ~DtLess(dt, order[i][2]) THEN LastTermLoop(order, i + 1, dt, order[i][1])
    ELSE last

RECURSIVE LastTermLoopStrict(_, _, _, _)
LastTermLoopStrict(order, i, dt, last) ==
    IF i > Len(order) THEN last
    ELSE IF DtLess(order[i][2], dt) THEN LastTermLoopStrict(order, i + 1, dt, order[i][1])
    ELSE last

\* lines 679-682
last_term_civil(order, dt) == LastTermLoopStrict(order, 1, dt, PREV_DAESEOL)
last_term(order, dt) == LastTermLoop(order, 1, dt, PREV_DAESEOL)

\* line 674
pillar_year_civil(dt, ipchun) == YearOf(dt)
pillar_year(dt, ipchun) == IF DtLess(dt, ipchun) THEN YearOf(dt) - 1 ELSE YearOf(dt)

\* lines 670-692; jie is the table jie_times_from_kasi_or_calc(dt.year, key) returned
four_pillars_from_solar(dt, k, jie) ==
    LET jie_sol == [name \in DOMAIN jie |-> to_solar_time(jie[name])]
        ipchun == jie_sol["ipchun"]
        y == pillar_year(dt, ipchun)
        y_gidx == (y - 4) % 10
        y_jidx == (y - 4) % 12
        order == SortByTime([i \in 1..13 |->
                    IF i <= 12 THEN <<JIE_ORDER[i], jie_sol[JIE_ORDER[i]]>>
                    ELSE <<PREV_DAESEOL, jie_sol[PREV_DAESEOL]>>])
        last == last_term(order, dt)
        m_branch == JIE_TO_MONTH_JI[last]
        m_bidx == IndexOf(MONTH_JI, m_branch)
        m_gidx == (month_start_gan_idx(y_gidx) + m_bidx) % 10
        day == day_ganji_solar(dt, k)
        h_j_idx == hour_branch_idx_2300(dt)
        zi_start == sidu_zi_start_gan(CHEONGAN[day.cidx + 1])
        h_c_idx == (IndexOf(CHEONGAN, zi_start) + h_j_idx) % 10
    IN  [year_pillar |-> <<CHEONGAN[y_gidx + 1], JIJI[y_jidx + 1]>>,
         month_pillar |-> <<CHEONGAN[m_gidx + 1], m_branch>>,
         day_pillar |-> day.ganji,
         hour_pillar |-> <<CHEONGAN[h_c_idx + 1], JIJI[h_j_idx + 1]>>,
         ipchun_solar |-> ipchun,
         y_gidx |-> y_gidx, m_gidx |-> m_gidx, m_bidx |-> m_bidx]

(***************************************************************************)
(* Inputs of decide_geok as the result section builds them (lines          *)
(* 1351-1358) from a chart: stems_visible = [yy_g, mm_g, dd_g, hh_g],       *)
(* branches_visible = [yy_j, mm_j, dd_j, hh_j].                            *)
(***************************************************************************)
NumYearPillars == 12
\* day_from_jieqi is clamped to 0..29 (lines 1287-1289)
DayCounts == {0, 5, 11, 12, 29}
\* <<first_term_dt, mid_term_dt>> of the month, in days
TermPair == <<0, 15>>

ChartInputs(y60, m_bidx, d60, h_jidx, djq, t) ==
    LET y_gidx == y60 % 10
        m_gidx == (month_start_gan_idx(y_gidx) + m_bidx) % 10
        d_cidx == d60 % 10
        zi_start == sidu_zi_start_gan(CHEONGAN[d_cidx + 1])
        h_c_idx == (IndexOf(CHEONGAN, zi_start) + h_jidx) % 10
    IN  [day_stem |-> CHEONGAN[d_cidx + 1],
         month_branch |-> MONTH_JI[m_bidx + 1],
         month_stem |-> CHEONGAN[m_gidx + 1],
         stems_visible |-> <<CHEONGAN[y_gidx + 1], CHEONGAN[m_gidx + 1],
                             CHEONGAN[d_cidx + 1], CHEONGAN[h_c_idx + 1]>>,
         branches_visible |-> <<JIJI[(y60 % 12) + 1], MONTH_JI[m_bidx + 1],
                                JIJI[(d60 % 12) + 1], JIJI[h_jidx + 1]>>,
         solar_dt |-> t, first_term_dt |-> TermPair[1], mid_term_dt |-> TermPair[2],
         day_from_jieqi |-> djq]

InitGeok ==
    /\ pc = "decide_geok"
    /\ \E y60 \in 0..(NumYearPillars - 1), m_bidx \in 0..11, d60 \in 0..59,
          h_jidx \in 0..11, djq \in DayCounts, t \in {TermPair[1], TermPair[2]} :
          inp = ChartInputs(y60, m_bidx, d60, h_jidx, djq, t)
    /\ geok = None
    /\ day_stem = None /\ other_stem = None /\ six = None
    /\ dt_solar = None /\ k_anchor = None /\ jie_raw = None /\ fp = None
    /\ sex = None /\ forward = None
    /\ ExtIdle

DecideGeok ==
    /\ pc = "decide_geok"
    /\ geok' = decide_geok(inp)
    /\ pc' = "geok_done"
    /\ UNCHANGED <<day_stem, other_stem, six, inp, dt_solar, k_anchor, jie_raw, fp,
                   sex, forward>>
    /\ UNCHANGED ext_vars

NextGeok == DecideGeok

SpecGeok == InitGeok /\ [][NextGeok]_vars

(***************************************************************************)
(* Ten-god classifier applied to every stem pair                           *)
(***************************************************************************)
InitTenGod ==
    /\ pc = "ten_god"
    /\ day_stem \in ToSet(CHEONGAN)
    /\ other_stem \in ToSet(CHEONGAN)
    /\ six = None
    /\ inp = None /\ geok = None
    /\ dt_solar = None /\ k_anchor = None /\ jie_raw = None /\ fp = None
    /\ sex = None /\ forward = None
    /\ ExtIdle

TenGodForStem ==
    /\ pc = "ten_god"
    /\ six' = ten_god_for_stem(day_stem, other_stem)
    /\ pc' = "ten_god_done"
    /\ UNCHANGED <<day_stem, other_stem, inp, geok, dt_solar, k_anchor, jie_raw, fp,
                   sex, forward>>
    /\ UNCHANGED ext_vars

NextTenGod == TenGodForStem

SpecTenGod == InitTenGod /\ [][NextTenGod]_vars

(***************************************************************************)
(* Four pillars of a solar instant                                         *)
(***************************************************************************)
FirstYear == 2023
NumYears == 2
\* a century year that is no leap year
CenturyYears == {2100}
Years == (FirstYear..(FirstYear + NumYears - 1)) \cup CenturyYears
\* <<hour, minute>>: the first and the last minute of every two-hour slot
Times == {<<hh, 0>> : hh \in {h \in 0..23 : h % 2 = 1}}
         \cup {<<hh, 59>> : hh \in {h \in 0..23 : h % 2 = 0}}
MaxAnchor == 1
KAnchors == {K_ANCHOR_DEFAULT} \cup (1..MaxAnchor)
\* offsets (minutes) of the root finder's result from its seed, within +-3 days;
\* the seeds are at 09:00 +09:00, i.e. 08:30 solar, so the terms fall at 09:00
\* three days early, at 23:00 of the seed's day and at 07:00 three days late
TermShifts == {30 - 3 * 1440, 870, 3 * 1440 - 90}

InitPillars ==
    /\ pc = "four_pillars"
    /\ \E y \in Years, shift \in TermShifts :
         \E jie \in {compute_jie_times_calc(y, shift)} :
            \E m \in 1..12, hm \in Times :
               \E d \in 1..DaysInMonth(y, m) :
                  /\ dt_solar = DateTime(y, m, d, hm[1], hm[2], LOCAL_TZ)
                  /\ jie_raw = jie
    /\ k_anchor \in KAnchors
    /\ fp = None
    /\ day_stem = None /\ other_stem = None /\ six = None
    /\ inp = None /\ geok = None
    /\ sex = None /\ forward = None
    /\ ExtIdle

FourPillarsFromSolar ==
    /\ pc = "four_pillars"
    /\ fp' = four_pillars_from_solar(dt_solar, k_anchor, jie_raw)
    /\ pc' = "pillars_done"
    /\ UNCHANGED <<day_stem, other_stem, six, inp, geok, dt_solar, k_anchor, jie_raw,
                   sex, forward>>
    /\ UNCHANGED ext_vars

NextPillars == FourPillarsFromSolar

SpecPillars == InitPillars /\ [][NextPillars]_vars

(***************************************************************************)
(* Result section: four pillars, then the decade-cycle direction           *)
(***************************************************************************)
is_yang_stem_four(gan) == gan \in {"gap", "byeong", "mu", "gyeong"}
is_yang_stem(gan) == gan \in {"gap", "byeong", "mu", "gyeong", "im"}

\* lines 1388-1389
dayun_forward(year_gan, s) ==
    (is_yang_stem(year_gan) /\ s = "namja") \/ (~is_yang_stem(year_gan) /\ s = "yeoja")

NumDayunYears == 10
DayunDays == {1, 15}

InitDayun ==
    /\ pc = "four_pillars"
    /\ \E y \in FirstYear..(FirstYear + NumDayunYears - 1), m \in 1..12, d \in DayunDays,
          shift \in TermShifts :
            /\ dt_solar = DateTime(y, m, d, 12, 0, LOCAL_TZ)
            /\ jie_raw = compute_jie_times_calc(y, shift)
    /\ k_anchor = K_ANCHOR_DEFAULT
    /\ sex \in {"namja", "yeoja"}
    /\ fp = None /\ forward = None
    /\ day_stem = None /\ other_stem = None /\ six = None
    /\ inp = None /\ geok = None
    /\ ExtIdle

DecideDirection ==
    /\ pc = "pillars_done"
    /\ sex # None
    /\ forward' = dayun_forward(fp.year_pillar[1], sex)
    /\ pc' = "direction_done"
    /\ UNCHANGED <<day_stem, other_stem, six, inp, geok, dt_solar, k_anchor, jie_raw,
                   fp, sex>>
    /\ UNCHANGED ext_vars

NextDayun == FourPillarsFromSolar \/ DecideDirection

SpecDayun == InitDayun /\ [][NextDayun]_vars

(***************************************************************************)
(* Decade-cycle start age (lines 696-708, 1390-1391)                       *)
(***************************************************************************)
\* a - b of two aware datetimes, in minutes
DtDiff(x, y) ==
    IF x.tz = y.tz THEN x.t - y.t ELSE (x.t - x.tz.off) - (y.t - y.tz.off)

\* for _, t in items: if t > dt_solar: return prev_t, t; prev_t = t
RECURSIVE NextPrevLoop(_, _, _, _)
NextPrevLoop(items, i, dt, prev_t) ==
    IF i > Len(items) THEN <<prev_t, prev_t>>
    ELSE IF DtLess(dt, items[i][2]) THEN <<prev_t, items[i][2]>>
    ELSE NextPrevLoop(items, i + 1, dt, items[i][2])

\* lines 696-703: <<prev_t, next_t>>
next_prev_jie(dt, jie_solar) ==
    LET items == SortByTime([i \in 1..13 |->
                    IF i <= 12 THEN <<JIE_ORDER[i], jie_solar[JIE_ORDER[i]]>>
                    ELSE <<PREV_DAESEOL, jie_solar[PREV_DAESEOL]>>])
    IN  NextPrevLoop(items, 1, dt, items[1][2])

\* round_half_up(minutes / 1440 / 3) = floor(minutes / 4320 + 1/2)
round_half_up_third_days(minutes) == (minutes + 2160) \div 4320

Max0(n) == IF n > 0 THEN n ELSE 0

\* lines 705-708
dayun_start_age(dt, jie_solar, fwd) ==
    LET pn == next_prev_jie(dt, jie_solar)
        delta == IF fwd THEN DtDiff(pn[2], dt) ELSE DtDiff(dt, pn[1])
    IN  Max0(round_half_up_third_days(delta))

\* lines 1390-1391: the term table of dt_solar.year is fetched again and
\* shifted to solar time
DayunStartAge ==
    /\ pc = "direction_done"
    /\ LET jie12_solar == [name \in DOMAIN jie_raw |-> to_solar_time(jie_raw[name])]
       IN  start_age' = dayun_start_age(dt_solar, jie12_solar, forward)
    /\ pc' = "start_age_done"
    /\ UNCHANGED <<day_stem, other_stem, six, inp, geok, dt_solar, k_anchor, jie_raw,
                   fp, sex, forward>>
    /\ UNCHANGED <<local_dt, rf, kasi, jt, builds, wolun,
                   dayun_list, ilun_list, fp_next>>

NextStartAge == FourPillarsFromSolar \/ DecideDirection \/ DayunStartAge

SpecStartAge == InitDayun /\ [][NextStartAge]_vars

(***************************************************************************)
(* Monthly cycle of a selected year (build_wolun_strip_for_year, lines     *)
(* 746-778) over the tables of the 24 terms                                *)
(***************************************************************************)
JIE24_ORDER == <<"ipchun","usu","gyeongchip","chunbun","cheongmyeong","gogu",
                 "ipha","soman","mangjong","haji","soseo","daeseo",
                 "ipchu","cheoseo","baengno","chubun","hallo","sanggang",
                 "ipdong","soseol","daeseol","dongji","sohan","daehan">>
MONTH_TO_2TERMS ==
    [in |-> <<"ipchun","usu">>, myo |-> <<"gyeongchip","chunbun">>,
     jin |-> <<"cheongmyeong","gogu">>, sa |-> <<"ipha","soman">>,
     o |-> <<"mangjong","haji">>, mi |-> <<"soseo","daeseo">>,
     sin |-> <<"ipchu","cheoseo">>, yu |-> <<"baengno","chubun">>,
     sul |-> <<"hallo","sanggang">>, hae |-> <<"ipdong","soseol">>,
     ja |-> <<"daeseol","dongji">>, chuk |-> <<"sohan","daehan">>]
\* rough (month, day) seeds of approx_guess_local_24
ROUGH24 ==
    [ipchun |-> <<2,4>>, usu |-> <<2,19>>, gyeongchip |-> <<3,6>>, chunbun |-> <<3,21>>,
     cheongmyeong |-> <<4,5>>, gogu |-> <<4,20>>, ipha |-> <<5,6>>, soman |-> <<5,21>>,
     mangjong |-> <<6,6>>, haji |-> <<6,21>>, soseo |-> <<7,7>>, daeseo |-> <<7,23>>,
     ipchu |-> <<8,8>>, cheoseo |-> <<8,23>>, baengno |-> <<9,8>>, chubun |-> <<9,23>>,
     hallo |-> <<10,8>>, sanggang |-> <<10,23>>, ipdong |-> <<11,7>>, soseol |-> <<11,22>>,
     daeseol |-> <<12,7>>, dongji |-> <<12,22>>, sohan |-> <<1,6>>, daehan |-> <<1,20>>]
approx_guess_local_24(year, name) ==
    DateTime(year, ROUGH24[name][1], ROUGH24[name][2], 9, 0, LOCAL_TZ)

\* compute_jie24_times_calc: as compute_jie_times_calc, the root finder's
\* result is the seed moved by `shift` minutes
compute_jie24_times_calc(year, shift) ==
    [name \in ToSet(JIE24_ORDER) |-> AddMinutes(approx_guess_local_24(year, name), shift)]

\* cand.sort() of the candidates of one term
SortTimes(cand) ==
    IF Len(cand) = 2 /\ DtLess(cand[2], cand[1]) THEN <<cand[2], cand[1]>> ELSE cand

\* _nearest (lines 759-765)
nearest_term(term_name, j24_this, j24_next, ipchun_this, ipchun_next) ==
    LET c_this == IF term_name \in DOMAIN j24_this
                  THEN <<to_solar_time(j24_this[term_name])>> ELSE <<>>
        c_next == IF term_name \in DOMAIN j24_next
                  THEN <<to_solar_time(j24_next[term_name])>> ELSE <<>>
        cand == SortTimes(c_this \o c_next)
        InYear(t) == ~DtLess(t, ipchun_this) /\ DtLess(t, ipchun_next)
        kept == SelectSeq(cand, InYear)
    IN  IF kept # <<>> THEN kept[1] ELSE cand[1]

\* lines 746-778
build_wolun_strip_for_year(year, ds, j24_this, j24_next, now_local) ==
    LET ipchun_this == to_solar_time(j24_this["ipchun"])
        ipchun_next == to_solar_time(j24_next["ipchun"])
        y_gidx == (year - 4) % 10
        start_m_gidx == month_start_gan_idx(y_gidx)
        Near(n) == nearest_term(n, j24_this, j24_next, ipchun_this, ipchun_next)
    IN  [k \in 1..12 |->
            LET i == k - 1
                gidx == (start_m_gidx + i) % 10
                gan == CHEONGAN[gidx + 1]
                ji == MONTH_JI[i + 1]
                t_start == Near(MONTH_TO_2TERMS[ji][1])
                t_mid == Near(MONTH_TO_2TERMS[ji][2])
                next_bidx == (i + 1) % 12
                t_end == Near(MONTH_TO_2TERMS[MONTH_JI[next_bidx + 1]][1])
                begin == IF DtLess(t_start, t_mid) THEN t_start ELSE t_mid
            IN  [i |-> i, gan |-> gan, ji |-> ji,
                 six |-> <<ten_god_for_stem(ds, gan), ten_god_for_branch(ds, ji)>>,
                 start |-> begin, end |-> t_end,
                 is_now |-> ~DtLess(now_local, begin) /\ DtLess(now_local, t_end)]]

\* the selected year, the chart's day stem, the present instant, and the two
\* tables jie24_times_from_kasi_or_calc returns at lines 747-748
InitWolun ==
    /\ pc = "wolun"
    /\ \E y \in FirstYear..(FirstYear + NumYears - 1), ds \in ToSet(CHEONGAN),
          s1 \in TermShifts, s2 \in TermShifts, mo \in {1, 7} :
         inp = [year |-> y, day_stem |-> ds,
                now_local |-> DateTime(y, mo, 15, 12, 0, LOCAL_TZ),
                j24_this |-> compute_jie24_times_calc(y, s1),
                j24_next |-> compute_jie24_times_calc(y + 1, s2)]
    /\ wolun = None
    /\ local_dt = None /\ rf = None /\ kasi = None /\ jt = None
    /\ builds = None /\ start_age = None
    /\ MoreIdle
    /\ dt_solar = None /\ k_anchor = None /\ jie_raw = None /\ fp = None
    /\ day_stem = None /\ other_stem = None /\ six = None
    /\ geok = None /\ sex = None /\ forward = None

BuildWolunStrip ==
    /\ pc = "wolun"
    /\ wolun' = build_wolun_strip_for_year(inp.year, inp.day_stem, inp.j24_this,
                                           inp.j24_next, inp.now_local)
    /\ pc' = "wolun_done"
    /\ UNCHANGED <<day_stem, other_stem, six, inp, geok, dt_solar, k_anchor, jie_raw,
                   fp, sex, forward, local_dt, rf, kasi, jt, builds, start_age,
                   dayun_list, ilun_list, fp_next>>

NextWolun == BuildWolunStrip

SpecWolun == InitWolun /\ [][NextWolun]_vars

(***************************************************************************)
(* Term tables built with the external collaborator                        *)
(* (jie_times_from_kasi_or_calc, lines 574-612, and                        *)
(* jie24_times_from_kasi_or_calc, lines 613-642).  The collaborator's      *)
(* behaviour is the record `kasi`, chosen by the environment:              *)
(*   key     whether a service key is configured                           *)
(*   dates   "raise" or "ok": the date query of the year                   *)
(*   missing the names the date query leaves out                           *)
(*   prev    "raise", "omit" or "ok": the date query of year - 1           *)
(*   events  "raise" or "ok": the monthly event queries                    *)
(*   text    the time-of-day text of every event                           *)
(*   shift   offset of every root-finder result from its seed              *)
(* A table entry keeps where it came from: src "kasi" or "root", the       *)
(* longitude asked for and the seed given to the root finder.              *)
(***************************************************************************)
JIE24_DEGREES ==
    [ipchun |-> 315, usu |-> 330, gyeongchip |-> 345, chunbun |-> 0,
     cheongmyeong |-> 15, gogu |-> 30, ipha |-> 45, soman |-> 60,
     mangjong |-> 75, haji |-> 90, soseo |-> 105, daeseo |-> 120,
     ipchu |-> 135, cheoseo |-> 150, baengno |-> 165, chubun |-> 180,
     hallo |-> 195, sanggang |-> 210, ipdong |-> 225, soseol |-> 240,
     daeseol |-> 255, dongji |-> 270, sohan |-> 285, daehan |-> 300]
JIE_DEGREES == [name \in ToSet(JIE_ORDER) |-> JIE24_DEGREES[name]]

\* str.split(':') of the time texts the collaborator is taken to send
TimeTexts == {"10:17", "", "1017", "25:00"}
SplitColon(text) ==
    IF text = "10:17" THEN <<"10", "17">>
    ELSE IF text = "25:00" THEN <<"25", "00">>
    ELSE <<text>>
IntOf(digits) ==
    IF digits = "10" THEN 10 ELSE IF digits = "17" THEN 17
    ELSE IF digits = "25" THEN 25 ELSE 0

Raised == [raised |-> TRUE]

\* _merge_date_time_local (lines 541-544): the unpacking `hh, mm = ...` needs
\* exactly two parts and datetime() an hour below 24, else ValueError
merge_date_time_local(ymd, hhmm) ==
    LET parts == SplitColon(hhmm)
    IN  IF Len(parts) # 2 THEN Raised
        ELSE IF IntOf(parts[1]) > 23 \/ IntOf(parts[2]) > 59 THEN Raised
        ELSE [raised |-> FALSE,
              value |-> DateTime(ymd[1], ymd[2], ymd[3], IntOf(parts[1]), IntOf(parts[2]),
                                 LOCAL_TZ)]

\* kasi_get_24divisions_dates (lines 519-531): name -> locdate <<y, m, d>> of
\* the names asked for that the collaborator does not leave out
kasi_get_24divisions_dates(year, names, missing) ==
    [name \in ToSet(names) \ missing |-> <<year, ROUGH24[name][1], ROUGH24[name][2]>>]

\* kasi_get_monthly_events (lines 532-540): the events of one month
kasi_get_monthly_events(year, month, text) ==
    LET all == [i \in 1..24 |->
                  [title |-> JIE24_ORDER[i], time |-> text,
                   locdate |-> <<year, ROUGH24[JIE24_ORDER[i]][1], ROUGH24[JIE24_ORDER[i]][2]>>]]
        InMonth(ev) == ev.locdate[2] = month
    IN  SelectSeq(all, InMonth)

\* find_longitude_time_local as the term builders see it
FindRoot(deg, approx, shift) ==
    [t |-> AddMinutes(approx, shift), src |-> "root", deg |-> deg, seed |-> approx]

\* compute_jie_times_calc and compute_jie24_times_calc with the origin of
\* every entry
CalcTable12(year, shift) ==
    [name \in TermNames |->
        FindRoot(IF name = PREV_DAESEOL THEN JIE_DEGREES["daeseol"] ELSE JIE_DEGREES[name],
                 approx_guess_local(year, name), shift)]
CalcTable24(year, shift) ==
    [name \in ToSet(JIE24_ORDER) |->
        FindRoot(JIE24_DEGREES[name], approx_guess_local_24(year, name), shift)]

\* for ev in monthly_cache[m]: first event with the title, the locdate and a
\* non-empty time
RECURSIVE FirstHit(_, _, _, _)
FirstHit(events, i, title, ymd) ==
    IF i > Len(events) THEN ""
    ELSE IF events[i].title = title /\ events[i].locdate = ymd /\ events[i].time # ""
         THEN events[i].time
         ELSE FirstHit(events, i + 1, title, ymd)

\* one pass of `for name in ...` (lines 590-611 and 623-641); st carries
\* monthly_cache, terms, the collaborator calls made, and whether the pass raised
TermPass(name, year, k, st, is24) ==
    LET is_prev == name = PREV_DAESEOL
        title == IF is_prev THEN "daeseol" ELSE name
        deg == JIE24_DEGREES[title]
    IN  IF name \notin DOMAIN st.name_to_date
        THEN LET approx == IF is24 THEN approx_guess_local_24(year, name)
                           ELSE approx_guess_local(IF is_prev THEN year - 1 ELSE year, name)
             IN  [st EXCEPT !.terms = @ @@ (name :> FindRoot(deg, approx, k.shift))]
        ELSE LET ymd == st.name_to_date[name]
                 m == ymd[2]
                 fetch == m \notin DOMAIN st.cache
                 fetched == IF k.events = "raise" THEN <<>>
                            ELSE kasi_get_monthly_events(ymd[1], m, k.text)
                 cache == IF fetch THEN st.cache @@ (m :> fetched) ELSE st.cache
                 calls == IF fetch THEN st.calls \cup {<<"events", ymd[1], m>>} ELSE st.calls
                 hit == FirstHit(cache[m], 1, title, ymd)
                 merged == merge_date_time_local(ymd, hit)
             IN  IF hit # ""
                 THEN IF merged.raised
                      THEN [st EXCEPT !.cache = cache, !.calls = calls, !.raised = TRUE]
                      ELSE [st EXCEPT !.cache = cache, !.calls = calls,
                                      !.terms = @ @@ (name :> [t |-> merged.value, src |-> "kasi",
                                                               deg |-> deg, seed |-> None])]
                 ELSE [st EXCEPT !.cache = cache, !.calls = calls,
                                 !.terms = @ @@ (name :>
                                    FindRoot(deg, DateTime(ymd[1], m, ymd[3], 12, 0, LOCAL_TZ),
                                             k.shift))]

RECURSIVE TermLoop(_, _, _, _, _, _)
TermLoop(names, i, year, k, st, is24) ==
    IF i > Len(names) \/ st.raised THEN st
    ELSE TermLoop(names, i + 1, year, k, TermPass(names[i], year, k, st, is24), is24)

Table(terms, calls) == [raised |-> FALSE, terms |-> terms, calls |-> calls]

\* lines 574-612
jie_times_from_kasi_or_calc(year, k) ==
    IF ~k.key THEN Table(CalcTable12(year, k.shift), {})
    ELSE IF k.dates = "raise" THEN Table(CalcTable12(year, k.shift), {<<"dates", year>>})
    ELSE
      LET dates == kasi_get_24divisions_dates(year, JIE_ORDER, k.missing)
      IN  IF Cardinality({n \in DOMAIN dates : n \in ToSet(JIE_ORDER)}) < 10
          THEN Table(CalcTable12(year, k.shift), {<<"dates", year>>})
          ELSE
            LET prev == kasi_get_24divisions_dates(year - 1, JIE_ORDER,
                            IF k.prev = "omit" THEN {"daeseol"} ELSE {})
                name_to_date ==
                    IF k.prev # "raise" /\ "daeseol" \in DOMAIN prev
                    THEN dates @@ (PREV_DAESEOL :> prev["daeseol"])
                    ELSE dates
                st0 == [name_to_date |-> name_to_date, cache |-> <<>>, terms |-> <<>>,
                        calls |-> {<<"dates", year>>, <<"dates", year - 1>>},
                        raised |-> FALSE]
                st == TermLoop(JIE_ORDER \o <<PREV_DAESEOL>>, 1, year, k, st0, FALSE)
            IN  IF st.raised THEN [raised |-> TRUE, terms |-> <<>>, calls |-> st.calls]
                ELSE Table(st.terms, st.calls)

\* lines 613-642
jie24_times_from_kasi_or_calc(year, k) ==
    IF ~k.key THEN Table(CalcTable24(year, k.shift), {})
    ELSE IF k.dates = "raise" THEN Table(CalcTable24(year, k.shift), {<<"dates", year>>})
    ELSE
      LET name_to_date == kasi_get_24divisions_dates(year, JIE24_ORDER, k.missing)
      IN  IF Cardinality({n \in DOMAIN name_to_date : n \in ToSet(JIE24_ORDER)}) < 18
          THEN Table(CalcTable24(year, k.shift), {<<"dates", year>>})
          ELSE
            LET st0 == [name_to_date |-> name_to_date, cache |-> <<>>, terms |-> <<>>,
                        calls |-> {<<"dates", year>>}, raised |-> FALSE]
                st == TermLoop(JIE24_ORDER, 1, year, k, st0, TRUE)
            IN  IF st.raised THEN [raised |-> TRUE, terms |-> <<>>, calls |-> st.calls]
                ELSE Table(st.terms, st.calls)

\* the names the collaborator's date query leaves out: none, one, as many as
\* the threshold allows, one more, all
Missing12 == {{}, {"daeseol"}, {"ipchun", "sohan"}, {"ipchun", "sohan", "daeseol"},
              ToSet(JIE_ORDER)}
Missing24 == {{}, {"dongji"}, ToSet(SubSeq(JIE24_ORDER, 1, 6)),
              ToSet(SubSeq(JIE24_ORDER, 1, 7)), ToSet(JIE24_ORDER)}

Collaborators(missing) ==
    [key : BOOLEAN, dates : {"raise", "ok"}, missing : missing,
     prev : {"raise", "omit", "ok"}, events : {"raise", "ok"},
     text : TimeTexts, shift : TermShifts]

InitTerms ==
    /\ \/ pc = "jie12" /\ kasi \in Collaborators(Missing12)
       \/ pc = "jie24" /\ kasi \in Collaborators(Missing24)
    /\ \E y \in FirstYear..(FirstYear + NumYears - 1) : inp = [year |-> y]
    /\ jt = None
    /\ local_dt = None /\ rf = None /\ builds = None /\ start_age = None /\ wolun = None
    /\ MoreIdle
    /\ dt_solar = None /\ k_anchor = None /\ jie_raw = None /\ fp = None
    /\ day_stem = None /\ other_stem = None /\ six = None
    /\ geok = None /\ sex = None /\ forward = None

terms_others == <<day_stem, other_stem, six, inp, geok, dt_solar, k_anchor, jie_raw, fp,
                  sex, forward, local_dt, rf, kasi, builds, start_age, wolun,
                   dayun_list, ilun_list, fp_next>>

JieTimesFromKasiOrCalc ==
    /\ pc = "jie12"
    /\ jt' = jie_times_from_kasi_or_calc(inp.year, kasi)
    /\ pc' = "jie12_done"
    /\ UNCHANGED terms_others

Jie24TimesFromKasiOrCalc ==
    /\ pc = "jie24"
    /\ jt' = jie24_times_from_kasi_or_calc(inp.year, kasi)
    /\ pc' = "jie24_done"
    /\ UNCHANGED terms_others

NextTerms == JieTimesFromKasiOrCalc \/ Jie24TimesFromKasiOrCalc

SpecTerms == InitTerms /\ [][NextTerms]_vars

(***************************************************************************)
(* One chart computation (one run of the page script with the result       *)
(* shown) as the sequence of its term-table builds.  `builds` counts, for   *)
(* every <<builder, year, service key present>>, the calls of              *)
(* jie_times_from_kasi_or_calc ("jie12") and jie24_times_from_kasi_or_calc *)
(* ("jie24") made so far; neither builder keeps anything between calls.    *)
(***************************************************************************)
SEUN_YEARS == 100
FirstBirthYear == 1990
NumBirthYears == 8
NowYear == 2026

\* the calls of one builder for a set of years, one call per year
BuiltYears(log, builder, years, key) ==
    LET new == {<<builder, y, key>> : y \in years}
    IN  [k \in DOMAIN log \cup new |->
            (IF k \in DOMAIN log THEN log[k] ELSE 0) + (IF k \in new THEN 1 ELSE 0)]

\* one call of a builder
Built(log, builder, year, key) == BuiltYears(log, builder, {year}, key)

\* build_seun_calendar_strip (lines 718-745): ipchun_of(y) and ipchun_of(y + 1)
\* for y in start_year..end_year, each year built once thanks to ipchun_cache,
\* which lives for this one call
build_seun_calendar_strip_builds(log, birth_year, years, key) ==
    LET start_year == birth_year - 1
        end_year == birth_year + years + 1
    IN  BuiltYears(log, "jie24", start_year..(end_year + 1), key)

InitSession ==
    /\ pc = "today"
    /\ \E y \in FirstBirthYear..(FirstBirthYear + NumBirthYears - 1), fast_mode \in BOOLEAN,
          has_key \in BOOLEAN :
         inp = [birth_year |-> y, now_year |-> NowYear,
                service_key |-> ~fast_mode /\ has_key]
    /\ builds = <<>>
    /\ local_dt = None /\ rf = None /\ kasi = None /\ jt = None
    /\ start_age = None /\ wolun = None
    /\ MoreIdle
    /\ dt_solar = None /\ k_anchor = None /\ jie_raw = None /\ fp = None
    /\ day_stem = None /\ other_stem = None /\ six = None
    /\ geok = None /\ sex = None /\ forward = None

session_others == <<day_stem, other_stem, six, inp, geok, dt_solar, k_anchor, jie_raw, fp,
                    sex, forward, local_dt, rf, kasi, jt, start_age, wolun,
                   dayun_list, ilun_list, fp_next>>

\* line 1190: today_fp = four_pillars_from_solar(now_solar, K_ANCHOR_DEFAULT, None)
TodayPillars ==
    /\ pc = "today"
    /\ builds' = Built(builds, "jie12", inp.now_year, FALSE)
    /\ pc' = "result"
    /\ UNCHANGED session_others

\* line 1247 (four_pillars_from_solar builds the table at line 671)
ResultPillars ==
    /\ pc = "result"
    /\ builds' = Built(builds, "jie12", inp.birth_year, inp.service_key)
    /\ pc' = "caption"
    /\ UNCHANGED session_others

\* lines 1250-1252
TermCaption ==
    /\ pc = "caption"
    /\ builds' = Built(Built(Built(builds, "jie24", inp.birth_year - 1, inp.service_key),
                             "jie24", inp.birth_year, inp.service_key),
                       "jie24", inp.birth_year + 1, inp.service_key)
    /\ pc' = "dayun"
    /\ UNCHANGED session_others

\* line 1390
DayunTerms ==
    /\ pc = "dayun"
    /\ builds' = Built(builds, "jie12", inp.birth_year, inp.service_key)
    /\ pc' = "seun"
    /\ UNCHANGED session_others

\* line 1413
SeunStrip ==
    /\ pc = "seun"
    /\ builds' = build_seun_calendar_strip_builds(builds, inp.birth_year, SEUN_YEARS,
                                                  inp.service_key)
    /\ pc' = "age"
    /\ UNCHANGED session_others

\* line 1415 (age_by_ipchun, line 135)
AgeByIpchun ==
    /\ pc = "age"
    /\ builds' = Built(builds, "jie24", inp.now_year, inp.service_key)
    /\ pc' = "wolun_year"
    /\ UNCHANGED session_others

\* lines 1457-1459: the year picked among the shown annual entries
WolunStrip ==
    /\ pc = "wolun_year"
    /\ \E sel_year \in {inp.birth_year, inp.birth_year + 9, inp.now_year} :
         builds' = Built(Built(builds, "jie24", sel_year, inp.service_key),
                         "jie24", sel_year + 1, inp.service_key)
    /\ pc' = "session_done"
    /\ UNCHANGED session_others

NextSession ==
    \/ TodayPillars \/ ResultPillars \/ TermCaption \/ DayunTerms
    \/ SeunStrip \/ AgeByIpchun \/ WolunStrip

SpecSession == InitSession /\ [][NextSession]_vars

(***************************************************************************)
(* Wall clock to solar time (result section, lines 1238-1244)              *)
(***************************************************************************)
\* preset_values: the UTC offsets (minutes) the overseas selector offers
PRESET_VALUES ==
    {-720, -660, -600, -570, -540, -480, -420, -360, -300, -240, -210, -180, -120, -60,
     0, 60, 120, 180, 210, 240, 270, 300, 330, 345, 360, 390, 420, 480, 525, 540, 570,
     600, 630, 660, 720, 780, 840}
\* timezone(timedelta(minutes=off))
FixedTz(off) == [name |-> "fixed", off |-> off]
SolarYears == {2024}
SolarTimes == {<<0, 0>>, <<0, 29>>, <<12, 0>>, <<23, 59>>}
SolarOffsets == PRESET_VALUES \cup {BASE_MIN}

InitSolar ==
    /\ pc = "to_solar"
    /\ \E y \in SolarYears, m \in 1..12, hm \in SolarTimes :
         \E d \in {1, DaysInMonth(y, m)},
            tz \in {LOCAL_TZ} \cup {FixedTz(o) : o \in SolarOffsets} :
               local_dt = DateTime(y, m, d, hm[1], hm[2], tz)
    /\ dt_solar = None /\ k_anchor = None /\ jie_raw = None /\ fp = None
    /\ day_stem = None /\ other_stem = None /\ six = None
    /\ inp = None /\ geok = None /\ sex = None /\ forward = None
    /\ rf = None /\ kasi = None /\ jt = None
    /\ builds = None /\ start_age = None /\ wolun = None
    /\ MoreIdle

ToSolarTime ==
    /\ pc = "to_solar"
    /\ dt_solar' = to_solar_time(local_dt)
    /\ pc' = "solar_done"
    /\ UNCHANGED <<day_stem, other_stem, six, inp, geok, k_anchor, jie_raw, fp, sex,
                   forward, local_dt, rf, kasi, jt, builds, start_age, wolun,
                   dayun_list, ilun_list, fp_next>>

NextSolar == ToSolarTime

SpecSolar == InitSolar /\ [][NextSolar]_vars

(***************************************************************************)
(* Root finder find_longitude_time_local (lines 492-512).  Instants are    *)
(* UTC, in ticks of 1/TicksPerHour hour (the source's timedelta has        *)
(* microsecond ticks; the seeds are on whole hours).  f(dt) = _wrap180(solar_longitude_deg(dt) - target)  *)
(* is not computed: every evaluation yields a value of Signs, the only     *)
(* thing the code looks at, chosen by the environment.                     *)
(***************************************************************************)
TicksPerHour == 6
Ticks(minutes) == (minutes \div 60) * TicksPerHour + ((minutes % 60) * TicksPerHour) \div 60
Signs == {-1, 0, 1}
BISECT_ITERATIONS == 70
SCAN_STEP_HOURS == 6

\* dt.astimezone(timezone.utc), in ticks
UtcTicks(dt) == Ticks(dt.t - dt.tz.off)
\* timedelta / 2: the nearest tick, ties to the even one
HalfEven(n) == IF n % 2 = 0 THEN n \div 2
               ELSE IF ((n - 1) \div 2) % 2 = 0 THEN (n - 1) \div 2 ELSE (n + 1) \div 2
\* a + (b - a)/2
Mid_outward(lo, hi) == hi + HalfEven(hi - lo)
Mid(lo, hi) == lo + HalfEven(hi - lo)
\* (fa <= 0 and fm >= 0) or (fa >= 0 and fm <= 0)
RootInLeft(f_a, f_m) == (f_a <= 0 /\ f_m >= 0) \/ (f_a >= 0 /\ f_m <= 0)
\* fa == 0 or fb == 0 or (fa < 0 and fb > 0) or (fa > 0 and fb < 0)
SignChange(f_a, f_b) == f_a = 0 \/ f_b = 0 \/ (f_a < 0 /\ f_b > 0) \/ (f_a > 0 /\ f_b < 0)
\* .astimezone(LOCAL_TZ).replace(second=0, microsecond=0)
ToLocalMinute(ticks) ==
    [t |-> (ticks \div TicksPerHour) * 60 + ((ticks % TicksPerHour) * 60) \div TicksPerHour
           + LOCAL_TZ.off,
     tz |-> LOCAL_TZ]

\* a seed the callers pass (approx_guess_local, 09:00 local)
RootSeeds == {approx_guess_local(2024, "ipchun")}

InitRoot ==
    /\ pc = "rf_scan"
    /\ \E approx \in RootSeeds, f0 \in Signs :
         rf = [approx |-> approx,
               a |-> UtcTicks(AddDays(approx, -3)),
               b |-> UtcTicks(AddDays(approx, 3)),
               scan |-> UtcTicks(AddDays(approx, -3)),
               fa |-> f0, found |-> FALSE, n_scan |-> 0, i |-> 0, res |-> None]
    /\ local_dt = None /\ kasi = None /\ jt = None
    /\ builds = None /\ start_age = None /\ wolun = None
    /\ MoreIdle
    /\ dt_solar = None /\ k_anchor = None /\ jie_raw = None /\ fp = None
    /\ day_stem = None /\ other_stem = None /\ six = None
    /\ inp = None /\ geok = None /\ sex = None /\ forward = None

root_others == <<day_stem, other_stem, six, inp, geok, dt_solar, k_anchor, jie_raw, fp,
                 sex, forward, local_dt, kasi, jt, builds, start_age, wolun,
                   dayun_list, ilun_list, fp_next>>

\* scan2 = scan + step
NextScan_stay(scan) == scan
NextScan(scan) == scan + Ticks(SCAN_STEP_HOURS * 60)

\* one pass of `while scan < b` (lines 497-501)
ScanStep ==
    /\ pc = "rf_scan"
    /\ rf.scan < rf.b
    /\ \E fb \in Signs :
         LET scan2 == NextScan(rf.scan)
         IN  IF SignChange(rf.fa, fb)
             THEN /\ rf' = [rf EXCEPT !.a = rf.scan, !.b = scan2, !.found = TRUE,
                                      !.fa = 0, !.n_scan = @ + 1]
                  /\ pc' = "rf_bisect"
             ELSE /\ rf' = [rf EXCEPT !.scan = scan2, !.fa = fb, !.n_scan = @ + 1]
                  /\ pc' = "rf_scan"
    /\ UNCHANGED root_others

\* the scan ran out: `if not found` (lines 502-504)
ScanExhausted ==
    /\ pc = "rf_scan"
    /\ ~(rf.scan < rf.b)
    /\ rf' = [rf EXCEPT !.a = UtcTicks(AddDays(rf.approx, -1)),
                        !.b = UtcTicks(AddDays(rf.approx, 1)), !.fa = 0]
    /\ pc' = "rf_bisect"
    /\ UNCHANGED root_others

\* one pass of `for _ in range(70)` (lines 505-510).  fm and fa are evaluated
\* anew in every pass, so the fa the scan left is dead and rf.fa is kept at 0.
BisectStep ==
    /\ pc = "rf_bisect"
    /\ rf.i < BISECT_ITERATIONS
    /\ \E fm \in Signs, f_a \in Signs :
         LET mid == Mid(rf.a, rf.b)
         IN  IF fm = 0
             THEN /\ rf' = [rf EXCEPT !.a = mid, !.b = mid, !.i = @ + 1]
                  /\ pc' = "rf_return"
             ELSE /\ rf' = IF RootInLeft(f_a, fm)
                           THEN [rf EXCEPT !.b = mid, !.i = @ + 1]
                           ELSE [rf EXCEPT !.a = mid, !.i = @ + 1]
                  /\ pc' = "rf_bisect"
    /\ UNCHANGED root_others

\* the 70 passes are used up
BisectExhausted ==
    /\ pc = "rf_bisect"
    /\ ~(rf.i < BISECT_ITERATIONS)
    /\ pc' = "rf_return"
    /\ UNCHANGED <<rf, root_others>>

\* lines 511-512
RootReturn ==
    /\ pc = "rf_return"
    /\ rf' = [rf EXCEPT !.res = ToLocalMinute(Mid(rf.a, rf.b))]
    /\ pc' = "rf_done"
    /\ UNCHANGED root_others

NextRoot == ScanStep \/ ScanExhausted \/ BisectStep \/ BisectExhausted \/ RootReturn

SpecRoot == InitRoot /\ [][NextRoot]_vars

\* a call runs to completion: the interpreter keeps taking the next step
SpecRootFair == SpecRoot /\ WF_vars(NextRoot)

(***************************************************************************)
(* Decade-cycle list (build_dayun_list_indices, lines 709-716).  b_idx     *)
(* indexes MONTH_JI (line 166), as m_bidx of the four pillars does.        *)
(***************************************************************************)
DAYUN_COUNT == 10
MaxStartAge == 10

build_dayun_list_indices_from0(month_gidx, month_bidx, fwd, age, count) ==
    LET dirv == IF fwd THEN 1 ELSE -1
    IN  [i \in 1..count |->
            [start_age |-> age + (i - 1) * 10,
             g_idx |-> (month_gidx + dirv * (i - 1)) % 10,
             b_idx |-> (month_bidx + dirv * (i - 1)) % 12]]

build_dayun_list_indices(month_gidx, month_bidx, fwd, age, count) ==
    LET dirv == IF fwd THEN 1 ELSE -1
    IN  [i \in 1..count |->
            [start_age |-> age + (i - 1) * 10,
             g_idx |-> (month_gidx + dirv * i) % 10,
             b_idx |-> (month_bidx + dirv * i) % 12]]

\* the month pillars four_pillars_from_solar can return: m_gidx is
\* month_start_gan_idx(y_gidx) + m_bidx modulo 10
MonthPillarIdx ==
    {<<(month_start_gan_idx(yg) + mb) % 10, mb>> : yg \in 0..9, mb \in 0..11}

dayun_list_others == <<day_stem, other_stem, six, geok, dt_solar, k_anchor, jie_raw, fp,
                       sex, forward, local_dt, rf, kasi, jt, builds, start_age, wolun,
                       ilun_list, fp_next>>

InitDayunList ==
    /\ pc = "dayun_list"
    /\ \E mp \in MonthPillarIdx, fwd \in BOOLEAN, age \in 0..MaxStartAge :
          inp = [month_gidx |-> mp[1], month_bidx |-> mp[2], forward |-> fwd,
                 start_age |-> age, count |-> DAYUN_COUNT]
    /\ day_stem = None /\ other_stem = None /\ six = None /\ geok = None
    /\ dt_solar = None /\ k_anchor = None /\ jie_raw = None /\ fp = None
    /\ sex = None /\ forward = None
    /\ ExtIdle

BuildDayunList ==
    /\ pc = "dayun_list"
    /\ dayun_list' = build_dayun_list_indices(inp.month_gidx, inp.month_bidx,
                                              inp.forward, inp.start_age, inp.count)
    /\ pc' = "dayun_list_done"
    /\ UNCHANGED inp
    /\ UNCHANGED dayun_list_others

NextDayunList == BuildDayunList

SpecDayunList == InitDayunList /\ [][NextDayunList]_vars

(***************************************************************************)
(* Last step of find_longitude_time_local (lines 511-512) at the           *)
(* resolution of a second: a and b are the bracket the bisection leaves,   *)
(* in seconds after the UTC minute `base`.                                 *)
(***************************************************************************)
MaxFinalSeconds == 119
MaxFinalWidth == 2

\* res.replace(second=0, microsecond=0) of base + seconds, moved to LOCAL_TZ
\* (whose offset is whole minutes)
ReplaceSecond0(base, seconds) ==
    [t |-> base + (seconds \div 60) + LOCAL_TZ.off, tz |-> LOCAL_TZ]

InitFinal ==
    /\ pc = "rf_return"
    /\ \E approx \in RootSeeds, lo \in 0..MaxFinalSeconds, w \in 0..MaxFinalWidth :
         rf = [approx |-> approx, base |-> approx.t - approx.tz.off,
               a |-> lo, b |-> lo + w, res |-> None]
    /\ local_dt = None /\ kasi = None /\ jt = None
    /\ builds = None /\ start_age = None /\ wolun = None
    /\ MoreIdle
    /\ dt_solar = None /\ k_anchor = None /\ jie_raw = None /\ fp = None
    /\ day_stem = None /\ other_stem = None /\ six = None
    /\ inp = None /\ geok = None /\ sex = None /\ forward = None

\* lines 511-512
FinalReturn ==
    /\ pc = "rf_return"
    /\ rf' = [rf EXCEPT !.res = ReplaceSecond0(rf.base, Mid(rf.a, rf.b))]
    /\ pc' = "rf_done"
    /\ UNCHANGED root_others

NextFinal == FinalReturn

SpecFinal == InitFinal /\ [][NextFinal]_vars

(***************************************************************************)
(* Daily cycle of a selected month (build_ilun_strip, lines 780-798),      *)
(* called at line 1482 with the start and end of an item of the monthly    *)
(* cycle.                                                                  *)
(***************************************************************************)
\* dt.replace(hour=12, minute=0, second=0, microsecond=0)
ReplaceNoon(dt) == [t |-> (dt.t \div 1440) * 1440 + 12 * 60, tz |-> dt.tz]

\* lines 782-784 without the step to the next day
first_noon_same_day(start_dt) == ReplaceNoon(start_dt)

\* lines 782-784: the first value of cur
first_noon(start_dt) ==
    LET cur == ReplaceNoon(start_dt)
    IN  IF DtLess(cur, start_dt) THEN AddDays(cur, 1) ELSE cur

\* lines 786-797: while cur < end_dt
RECURSIVE IlunLoop(_, _, _, _, _, _)
IlunLoop(cur, end_dt, ds, k, today_anchor, items) ==
    IF ~DtLess(cur, end_dt) THEN items
    ELSE LET day_gj == day_ganji_solar(cur, k).ganji
             d_gan == day_gj[1]
             d_ji == day_gj[2]
             item == [date_iso |-> DateOf(cur),
                      date_label |-> <<DateOf(cur)[2], DateOf(cur)[3]>>,
                      gan |-> d_gan, ji |-> d_ji,
                      six |-> <<ten_god_for_stem(ds, d_gan), ten_god_for_branch(ds, d_ji)>>,
                      is_today |-> pillar_day_by_2300(cur) = today_anchor]
         IN  IlunLoop(AddDays(cur, 1), end_dt, ds, k, today_anchor, Append(items, item))

build_ilun_strip(start_dt, end_dt, ds, k, now_local) ==
    IlunLoop(first_noon(start_dt), end_dt, ds, k,
             pillar_day_by_2300(to_solar_time(now_local)), <<>>)

ilun_others == <<day_stem, other_stem, six, geok, dt_solar, k_anchor, jie_raw, fp,
                 sex, forward, local_dt, rf, kasi, jt, builds, start_age, wolun,
                 dayun_list, fp_next>>

\* the span of the selected item of the monthly cycle (lines 1480-1482), the
\* chart's day stem and anchor, and the present instant
InitIlun ==
    /\ pc = "ilun"
    /\ \E y \in FirstYear..(FirstYear + NumYears - 1), ds \in {"gap", "gye"},
          s1 \in TermShifts, s2 \in TermShifts, sel_month_idx \in 0..11,
          k \in KAnchors :
         \E now_local \in {DateTime(y, 7, 15, 12, 0, LOCAL_TZ)} :
         \E items \in {build_wolun_strip_for_year(y, ds, compute_jie24_times_calc(y, s1),
                                                  compute_jie24_times_calc(y + 1, s2),
                                                  now_local)} :
            inp = [start_dt |-> items[sel_month_idx + 1].start,
                   end_dt |-> items[sel_month_idx + 1].end,
                   day_stem |-> ds, k_anchor |-> k, now_local |-> now_local]
    /\ day_stem = None /\ other_stem = None /\ six = None /\ geok = None
    /\ dt_solar = None /\ k_anchor = None /\ jie_raw = None /\ fp = None
    /\ sex = None /\ forward = None
    /\ ExtIdle

BuildIlunStrip ==
    /\ pc = "ilun"
    /\ ilun_list' = build_ilun_strip(inp.start_dt, inp.end_dt, inp.day_stem,
                                     inp.k_anchor, inp.now_local)
    /\ pc' = "ilun_done"
    /\ UNCHANGED inp
    /\ UNCHANGED ilun_others

NextIlun == BuildIlunStrip

SpecIlun == InitIlun /\ [][NextIlun]_vars

(***************************************************************************)
(* four_pillars_from_solar (lines 670-692) at two instants, `step` minutes *)
(* apart.  Each call builds the table of its own instant's year (line      *)
(* 671): one table when both instants lie in one year, else the table of   *)
(* the next year, whose root-finder results have their own offset.         *)
(***************************************************************************)
SecondInstant == AddMinutes(dt_solar, inp.step)

steps_others == <<day_stem, other_stem, six, inp, geok, dt_solar, k_anchor, jie_raw,
                  sex, forward, local_dt, rf, kasi, jt, builds, start_age, wolun,
                  dayun_list, ilun_list>>

StepsIdle ==
    /\ fp = None /\ fp_next = None
    /\ day_stem = None /\ other_stem = None /\ six = None /\ geok = None
    /\ sex = None /\ forward = None
    /\ local_dt = None /\ rf = None /\ kasi = None /\ jt = None
    /\ builds = None /\ start_age = None /\ wolun = None
    /\ dayun_list = None /\ ilun_list = None

\* the last minute before a major term of the year's table and the minute of
\* the term itself, or the last minute of the year and the first of the next
InitCross ==
    /\ pc = "first"
    /\ \E y \in FirstYear..(FirstYear + NumYears - 1), shift \in TermShifts,
          shift_next \in TermShifts, name \in ToSet(JIE_ORDER) \cup {"jan1"} :
         \E jie \in {compute_jie_times_calc(y, shift)} :
            /\ jie_raw = jie
            /\ dt_solar = IF name = "jan1" THEN DateTime(y, 12, 31, 23, 59, LOCAL_TZ)
                          ELSE AddMinutes(to_solar_time(jie[name]), -1)
            /\ inp = [crossing |-> name, step |-> 1, shift_next |-> shift_next]
    /\ k_anchor \in KAnchors
    /\ StepsIdle

\* months whose days are the starts of the two-hour slots
SlotMonths == {2, 12}

\* the start of a two-hour slot (23:00, 01:00, ..., 21:00) and of the next one
InitSlots ==
    /\ pc = "first"
    /\ \E y \in FirstYear..(FirstYear + NumYears - 1), shift \in {870},
          m \in SlotMonths, hh \in {h \in 0..23 : h % 2 = 1} :
         \E d \in 1..DaysInMonth(y, m) :
            /\ jie_raw = compute_jie_times_calc(y, shift)
            /\ dt_solar = DateTime(y, m, d, hh, 0, LOCAL_TZ)
            /\ inp = [crossing |-> "slot", step |-> 120, shift_next |-> shift]
    /\ k_anchor \in KAnchors
    /\ StepsIdle

PillarsFirst ==
    /\ pc = "first"
    /\ fp' = four_pillars_from_solar(dt_solar, k_anchor, jie_raw)
    /\ pc' = "second"
    /\ UNCHANGED <<fp_next, steps_others>>

PillarsSecond ==
    /\ pc = "second"
    /\ fp_next' = four_pillars_from_solar(SecondInstant, k_anchor,
                     IF YearOf(SecondInstant) = YearOf(dt_solar) THEN jie_raw
                     ELSE compute_jie_times_calc(YearOf(SecondInstant), inp.shift_next))
    /\ pc' = "steps_done"
    /\ UNCHANGED <<fp, steps_others>>

NextSteps == PillarsFirst \/ PillarsSecond

SpecCross == InitCross /\ [][NextSteps]_vars

SpecSlots == InitSlots /\ [][NextSteps]_vars

(***************************************************************************)
(* Result section, lines 1238-1247, for one instant entered twice: as a    *)
(* wall clock of LOCAL_TZ and, in overseas mode, as the wall clock of a    *)
(* fixed offset.  apply_longitude_correction is taken with no city chosen. *)
(***************************************************************************)
OverseasOffsets == {-300, 0, 540, 840}
OffsetDays == {4, 7, 15}
OffsetTimes == {<<3, 0>>, <<10, 0>>, <<18, 0>>}

\* dt.astimezone(tz): the same instant on another wall clock
AsTimezone(dt, tz) == [t |-> dt.t - dt.tz.off + tz.off, tz |-> tz]

\* jie_times_from_kasi_or_calc(dt_solar.year, None) of line 671
TableOf(dt, shift) == compute_jie_times_calc(YearOf(dt), shift)

InitOffsets ==
    /\ pc = "local"
    /\ \E y \in FirstYear..(FirstYear + NumYears - 1), m \in 1..12, d \in OffsetDays,
          hm \in OffsetTimes, off \in OverseasOffsets :
         \E dt \in {DateTime(y, m, d, hm[1], hm[2], LOCAL_TZ)} :
            /\ local_dt = dt
            /\ inp = [dt_overseas |-> AsTimezone(dt, FixedTz(off)), shift |-> 870]
    /\ k_anchor \in KAnchors
    /\ dt_solar = None /\ jie_raw = None
    /\ fp = None /\ fp_next = None
    /\ day_stem = None /\ other_stem = None /\ six = None /\ geok = None
    /\ sex = None /\ forward = None
    /\ rf = None /\ kasi = None /\ jt = None
    /\ builds = None /\ start_age = None /\ wolun = None
    /\ dayun_list = None /\ ilun_list = None

offsets_others == <<day_stem, other_stem, six, inp, geok, k_anchor, jie_raw,
                    sex, forward, local_dt, rf, kasi, jt, builds, start_age, wolun,
                    dayun_list, ilun_list>>

\* lines 1242-1247 with overseas_mode off
PillarsLocal ==
    /\ pc = "local"
    /\ dt_solar' = to_solar_time(local_dt)
    /\ fp' = four_pillars_from_solar(dt_solar', k_anchor, TableOf(dt_solar', inp.shift))
    /\ pc' = "overseas"
    /\ UNCHANGED <<fp_next, offsets_others>>

\* lines 1238-1240, 1245-1247 with overseas_mode on
PillarsOverseas ==
    /\ pc = "overseas"
    /\ dt_solar' = to_solar_time(inp.dt_overseas)
    /\ fp_next' = four_pillars_from_solar(dt_solar', k_anchor, TableOf(dt_solar', inp.shift))
    /\ pc' = "offsets_done"
    /\ UNCHANGED <<fp, offsets_others>>

NextOffsets == PillarsLocal \/ PillarsOverseas

SpecOffsets == InitOffsets /\ [][NextOffsets]_vars

(***************************************************************************)
(* Properties                                                              *)
(***************************************************************************)
TenGods == {"bigyeon", "geopjae", "siksin", "sanggwan", "pyeonjae", "jeongjae",
            "pyeongwan", "jeonggwan", "pyeonin", "jeongin"}
SpecialLabels == {"geonrokgyeok", "wolbigyeok", "yangingyeok", "wolgeopgyeok"}
StorageBranches == {"jin", "sul", "chuk", "mi"}
GateBranches == {"ja", "o", "myo", "yu", "in", "sin", "sa", "hae"}

ParityOK(p) == IndexOf(CHEONGAN, p[1]) % 2 = IndexOf(JIJI, p[2]) % 2

\* C1: each of the four pillars four_pillars_from_solar returns is a valid
\* sexagenary pair: the stem's CHEONGAN index and the branch's JIJI index have
\* the same parity (the month branch index m_bidx is a MONTH_JI index, two
\* behind its JIJI index).
C1_PillarParity ==
    pc = "pillars_done" =>
        /\ ParityOK(fp.year_pillar) /\ ParityOK(fp.month_pillar)
        /\ ParityOK(fp.day_pillar) /\ ParityOK(fp.hour_pillar)
        /\ fp.month_pillar = <<CHEONGAN[fp.m_gidx + 1], MONTH_JI[fp.m_bidx + 1]>>
        /\ IndexOf(JIJI, fp.month_pillar[2]) = (fp.m_bidx + 2) % 12
        /\ fp.m_gidx % 2 = fp.m_bidx % 2

C1_Witness ==
    /\ pc = "pillars_done"
    /\ k_anchor # K_ANCHOR_DEFAULT
    /\ fp.month_pillar[2] = "chuk"
    /\ fp.hour_pillar[2] = "ja"

WellFormedLabels ==
    SpecialLabels \cup {g \o "gyeok" : g \in TenGods}
    \cup {"junggigyeok(" \o g \o ")" : g \in TenGods} \cup {"junggisangsaenggyeok"}

\* C2: decide_geok is total: on every input it yields one label that is a
\* special label, <ten-god>gyeok, junggigyeok(<ten-god>) or junggisangsaenggyeok,
\* with <ten-god> one of the ten categories and never the placeholder mijeong.
C2_GeokTotal ==
    pc = "geok_done" => geok.label \in WellFormedLabels

C2_Witness ==
    /\ pc = "geok_done"
    /\ geok.label = "junggisangsaenggyeok"
    /\ inp.day_from_jieqi = 29

\* C3: ten_god_for_stem returns, for every stem pair, the category of the
\* relation between the two elements (same / produced by the day stem /
\* controlled by it / controlling it / producing it), the first label of the
\* pair when the polarities are equal; mijeong is never returned.
C3_TenGod ==
    pc = "ten_god_done" =>
        LET d_e == STEM_ELEM[day_stem]
            o_e == STEM_ELEM[other_stem]
            same_p == STEM_YINYANG[day_stem] = STEM_YINYANG[other_stem]
            pair == IF o_e = d_e THEN <<"bigyeon", "geopjae">>
                    ELSE IF ELEM_PRODUCE[d_e] = o_e THEN <<"siksin", "sanggwan">>
                    ELSE IF ELEM_CONTROL[d_e] = o_e THEN <<"pyeonjae", "jeongjae">>
                    ELSE IF ELEM_CONTROL[o_e] = d_e THEN <<"pyeongwan", "jeonggwan">>
                    ELSE IF ELEM_PRODUCE[o_e] = d_e THEN <<"pyeonin", "jeongin">>
                    ELSE <<"mijeong", "mijeong">>
        IN  /\ six \in TenGods
            /\ six = IF same_p THEN pair[1] ELSE pair[2]

C3_Witness ==
    pc = "ten_god_done" /\ day_stem = "gap" /\ other_stem = "sin" /\ six = "jeonggwan"

\* C4: the day pillar of an instant before 23:00 on civil date D equals the day
\* pillar of the same time of day on D + 60 days, and jdn_0h_utc grows by
\* exactly 1 from D to the next civil date.
C4_SixtyDayPeriod ==
    pc = "pillars_done" /\ HourOf(dt_solar) < 23 =>
        \A D \in {DateOf(dt_solar)}, N \in {DateOf(AddDays(dt_solar, 1))} :
            /\ fp.day_pillar = day_ganji_solar(AddDays(dt_solar, 60), k_anchor).ganji
            /\ jdn_0h_utc(N[1], N[2], N[3]) = jdn_0h_utc(D[1], D[2], D[3]) + 1

C4_Witness ==
    /\ pc = "pillars_done"
    /\ HourOf(dt_solar) < 23
    /\ DateOf(dt_solar) = <<2100, 1, 15>>
    /\ DateOf(AddDays(dt_solar, 60)) = <<2100, 3, 16>>

\* C5: an instant at or after 23:00 on civil date D gets the day pillar of
\* D + 1 (the pillar of every instant before 23:00 on D + 1); an instant before
\* 23:00 on D gets the pillar of D.
C5_DayBoundary ==
    pc = "pillars_done" =>
        \A ord \in {dt_solar.t \div 1440} :
            LET late == HourOf(dt_solar) >= 23
                tgt == IF late THEN ord + 1 ELSE ord
                at(hm) == [t |-> tgt * 1440 + hm, tz |-> dt_solar.tz]
            IN  \A d \in {Ord2Ymd(tgt)} :
                  \A idx \in {(jdn_0h_utc(d[1], d[2], d[3]) + k_anchor) % 60} :
                    /\ fp.day_pillar = <<CHEONGAN[(idx % 10) + 1], JIJI[(idx % 12) + 1]>>
                    /\ fp.day_pillar = day_ganji_solar(at(0), k_anchor).ganji
                    /\ fp.day_pillar = day_ganji_solar(at(22 * 60 + 59), k_anchor).ganji

C5_Witness ==
    /\ pc = "pillars_done"
    /\ HourOf(dt_solar) = 23 /\ MinuteOf(dt_solar) = 0
    /\ DateOf(dt_solar) = <<2023, 12, 31>>
    /\ fp.day_pillar = day_ganji_solar(DateTime(2024, 1, 1, 12, 0, LOCAL_TZ), k_anchor).ganji

\* C6: the month branch is JIE_TO_MONTH_JI of the latest instant <= t among the
\* 12 major terms of t's calendar year and the previous year's daeseol; an
\* instant equal to a term instant belongs to the new month.
C6_MonthBranch ==
    pc = "pillars_done" =>
        \A jie_sol \in {[n \in TermNames |-> to_solar_time(jie_raw[n])]} :
            LET le == {n \in TermNames : ~DtLess(dt_solar, jie_sol[n])}
            IN  /\ le # {}
                /\ \A latest \in le :
                      (\A n \in le : ~DtLess(jie_sol[latest], jie_sol[n])) =>
                          /\ fp.month_pillar[2] = JIE_TO_MONTH_JI[latest]
                          /\ MONTH_JI[fp.m_bidx + 1] = JIE_TO_MONTH_JI[latest]

C6_Witness ==
    /\ pc = "pillars_done"
    /\ dt_solar = to_solar_time(jie_raw["mangjong"])
    /\ fp.month_pillar[2] = "o"

YearPillarOf(y) == <<CHEONGAN[((y - 4) % 10) + 1], JIJI[((y - 4) % 12) + 1]>>

\* C7: the year pillar is that of Y - 1 when t is strictly before the ipchun
\* instant of t's calendar year Y and that of Y otherwise, with stem index
\* (y - 4) mod 10 and branch index (y - 4) mod 12; so January (before ipchun)
\* keeps the pillar of December of Y - 1.
C7_YearBoundary ==
    pc = "pillars_done" =>
        \A d \in {DateOf(dt_solar)} :
            LET Y == d[1]
                before == DtLess(dt_solar, to_solar_time(jie_raw["ipchun"]))
                y == IF before THEN Y - 1 ELSE Y
            IN  /\ fp.year_pillar = YearPillarOf(y)
                /\ fp.y_gidx = (y - 4) % 10
                /\ d[2] = 1 => fp.year_pillar = YearPillarOf(Y - 1)
                /\ d[2] = 12 => fp.year_pillar = YearPillarOf(Y)

C7_Witness ==
    /\ pc = "pillars_done"
    /\ DateOf(dt_solar) = <<2024, 1, 1>>
    /\ fp.year_pillar = <<"gye", "myo">>

\* C8: when the month branch is one of ja o myo yu in sin sa hae and its main
\* hidden stem has the day stem's element, decide_geok answers from the special
\* gate with one of the four special labels: equal polarities give geonrokgyeok
\* if a jeonggwan stem is visible or a visible branch's ten-god is jeonggwan,
\* else wolbigyeok; different polarities give yangingyeok if a pyeongwan stem or
\* branch is visible, else wolgeopgyeok.
C8_SpecialGate ==
    (/\ pc = "geok_done"
     /\ inp.month_branch \in GateBranches
     /\ STEM_ELEM[BRANCH_MAIN_STEM[inp.month_branch]] = STEM_ELEM[inp.day_stem]) =>
        LET ds == inp.day_stem
            same_p == STEM_YINYANG[BRANCH_MAIN_STEM[inp.month_branch]] = STEM_YINYANG[ds]
            has(tg) == \/ \E s \in ToSet(inp.stems_visible) : ten_god_for_stem(ds, s) = tg
                       \/ \E b \in ToSet(inp.branches_visible) : ten_god_for_branch(ds, b) = tg
        IN  /\ geok.tag = "teuksu"
            /\ geok.label =
                 IF same_p
                 THEN (IF has("jeonggwan") THEN "geonrokgyeok" ELSE "wolbigyeok")
                 ELSE (IF has("pyeongwan") THEN "yangingyeok" ELSE "wolgeopgyeok")

C8_Witness ==
    /\ pc = "geok_done"
    /\ inp.day_stem = "gap" /\ inp.month_branch = "myo"
    /\ "gyeong" \in ToSet(inp.stems_visible)
    /\ geok.label = "yangingyeok"

TriadPartners ==
    [jin |-> {"sin", "ja"}, sul |-> {"in", "o"}, chuk |-> {"sa", "yu"}, mi |-> {"hae", "myo"}]

\* C9: for a storage month branch (jin sul chuk mi), day_from_jieqi <= 11 and no
\* triad partner of the month branch among the visible branches, decide_geok
\* resolves through the initial-hidden-stem sub-rule: the chosen stem has the
\* element of BRANCH_HIDDEN[month branch][0] (a visible stem of that element
\* with polarity opposite the day stem, else a visible stem of that element,
\* else the initial hidden stem), never through the dominant-earth-stem rule.
C9_StorageEarly ==
    (/\ pc = "geok_done"
     /\ inp.month_branch \in StorageBranches
     /\ inp.day_from_jieqi <= 11
     /\ TriadPartners[inp.month_branch] \cap ToSet(inp.branches_visible) = {}) =>
        LET ds == inp.day_stem
            yeogi == BRANCH_HIDDEN[inp.month_branch][1]
            vis == {s \in ToSet(inp.stems_visible) : STEM_ELEM[s] = STEM_ELEM[yeogi]}
            opp == {s \in vis : STEM_YINYANG[s] # STEM_YINYANG[ds]}
            chosen == IF opp # {} THEN opp ELSE IF vis # {} THEN vis ELSE {yeogi}
        IN  /\ geok.tag = "jinsulchukmi"
            /\ geok.rule \in {"front12:yeogi-tugan-useon",
                              "front12:yeogi-dongil-ohaeng-tugan", "front12:yeogi"}
            /\ geok.pick \in chosen
            /\ STEM_ELEM[geok.pick] = STEM_ELEM[yeogi]
            /\ geok.label = ten_god_for_stem(ds, geok.pick) \o "gyeok"

C9_Witness ==
    /\ pc = "geok_done"
    /\ inp.month_branch = "jin" /\ inp.day_from_jieqi = 5
    /\ TriadPartners["jin"] \cap ToSet(inp.branches_visible) = {}
    /\ geok.rule = "front12:yeogi-tugan-useon"

\* C10: the decade-cycle direction is forward exactly when (year stem is yang)
\* equals (subject is male); flipping the stem's polarity alone, or the sex
\* alone, flips the direction.
C10_Direction ==
    pc = "direction_done" =>
        LET yg == fp.year_pillar[1]
            i == IndexOf(CHEONGAN, yg)
            other_gan == CHEONGAN[(IF i % 2 = 0 THEN i + 1 ELSE i - 1) + 1]
            other_sex == IF sex = "namja" THEN "yeoja" ELSE "namja"
        IN  /\ forward = ((STEM_YINYANG[yg] = "yang") = (sex = "namja"))
            /\ dayun_forward(other_gan, sex) = ~forward
            /\ dayun_forward(yg, other_sex) = ~forward

C10_Witness ==
    /\ pc = "direction_done"
    /\ sex = "yeoja" /\ fp.year_pillar[1] = "gye"
    /\ forward = TRUE

\* C15: adding (offset_minutes - 510) minutes back to to_solar_time(instant)
\* recovers the original instant exactly, for every valid UTC offset, and an
\* instant whose offset is +08:30 is left unchanged.
C15_RoundTrip ==
    pc = "solar_done" =>
        /\ AddMinutes(dt_solar, local_dt.tz.off - 510) = local_dt
        /\ local_dt.tz.off = 510 => dt_solar = local_dt

C15_Witness ==
    /\ pc = "solar_done"
    /\ local_dt = DateTime(2024, 1, 1, 0, 0, FixedTz(840))
    /\ DateOf(dt_solar) = <<2023, 12, 31>>

SameElementMonth ==
    STEM_ELEM[BRANCH_MAIN_STEM[inp.month_branch]] = STEM_ELEM[inp.day_stem]

\* C16 (as claimed): for every day stem and every one of the 12 month branches
\* whose main hidden stem has the day stem's element, earth day stems with the
\* storage branches included, decide_geok returns one of the four special labels.
C16_Claimed ==
    pc = "geok_done" /\ SameElementMonth => geok.label \in SpecialLabels

\* C16 (amended): the 4-way special rule is applied exactly for the eight month
\* branches ja o myo yu in sin sa hae whose main hidden stem has the day stem's
\* element; an earth day stem with a storage month branch (jin sul chuk mi) is
\* resolved by the storage-group rules and gets a <ten-god>gyeok label, never a
\* special label.
C16_GateEightBranches ==
    pc = "geok_done" =>
        /\ (SameElementMonth /\ inp.month_branch \in GateBranches) =>
              (geok.tag = "teuksu" /\ geok.label \in SpecialLabels)
        /\ (SameElementMonth /\ inp.month_branch \in StorageBranches) =>
              /\ STEM_ELEM[inp.day_stem] = "to"
              /\ geok.tag = "jinsulchukmi"
              /\ geok.label \in {g \o "gyeok" : g \in TenGods}
        /\ geok.label \in SpecialLabels =>
              (SameElementMonth /\ inp.month_branch \in GateBranches)

C16_Witness ==
    /\ pc = "geok_done"
    /\ inp.day_stem = "mu" /\ inp.month_branch = "jin"
    /\ geok.tag = "jinsulchukmi"
    /\ geok.label = "bigyeongyeok"

WindowLo == UtcTicks(AddDays(rf.approx, -3))
WindowHi == UtcTicks(AddDays(rf.approx, 3))
\* the bracket the bisection starts from
BracketLo == IF rf.found THEN rf.scan ELSE UtcTicks(AddDays(rf.approx, -1))
BracketHi == IF rf.found THEN rf.scan + Ticks(SCAN_STEP_HOURS * 60)
             ELSE UtcTicks(AddDays(rf.approx, 1))

RootVariant ==
    (IF pc = "rf_scan" THEN 3 ELSE IF pc = "rf_bisect" THEN 2
     ELSE IF pc = "rf_return" THEN 1 ELSE 0)
    + (24 - rf.n_scan) + (BISECT_ITERATIONS - rf.i)

TermsAround(sh) ==
    {to_solar_time(jie_raw[name]) : name \in DOMAIN jie_raw}
    \cup {to_solar_time(compute_jie_times_calc(YearOf(dt_solar) + 1, sh)[name]) :
            name \in ToSet(JIE_ORDER)}
\* days (in minutes) to the next major term strictly after t
MinutesToNextTerm(sh) ==
    LET later == {t \in TermsAround(sh) : DtLess(dt_solar, t)}
        next == CHOOSE t \in later : \A u \in later : ~DtLess(u, t)
    IN  DtDiff(next, dt_solar)
\* days (in minutes) since the latest major term at or before t
MinutesSincePrevTerm(sh) ==
    LET earlier == {t \in TermsAround(sh) : ~DtLess(dt_solar, t)}
        prev == CHOOSE t \in earlier : \A u \in earlier : ~DtLess(t, u)
    IN  DtDiff(dt_solar, prev)

\* C17: the decade-cycle start age is round_half_up(d / 3), d being the days
\* from t to the next major term strictly after t when the direction is forward
\* (next year's sohan for an instant after daeseol) and the days from the latest
\* major term at or before t when it is backward.  Next year's table is any of
\* the tables the root finder can return.
C17_StartAge ==
    pc = "start_age_done" =>
        \E sh \in TermShifts :
            start_age = round_half_up_third_days(
                            IF forward THEN MinutesToNextTerm(sh)
                            ELSE MinutesSincePrevTerm(sh))

\* C19: build_wolun_strip_for_year returns 12 entries in branch order in..chuk;
\* every entry starts before it ends, every entry ends where the next one
\* starts, the first starts at ipchun of the year and the last ends at ipchun
\* of the next year.
C19_WolunStrip ==
    pc = "wolun_done" =>
        /\ Len(wolun) = 12
        /\ \A k \in 1..12 : wolun[k].ji = MONTH_JI[k] /\ DtLess(wolun[k].start, wolun[k].end)
        /\ \A k \in 1..11 : wolun[k].end = wolun[k + 1].start
        /\ wolun[1].start = to_solar_time(inp.j24_this["ipchun"])
        /\ wolun[12].end = to_solar_time(inp.j24_next["ipchun"])

\* C11: whatever the collaborator does (raising on any call, leaving out any
\* names, sending events with empty or unusable time text), the two term
\* builders do not raise and return an instant for each of the 12 major terms
\* and the previous year's daeseol, respectively for each of the 24 terms.
C11_NeverFatal ==
    /\ pc = "jie12_done" => ~jt.raised /\ DOMAIN jt.terms = TermNames
    /\ pc = "jie24_done" => ~jt.raised /\ DOMAIN jt.terms = ToSet(JIE24_ORDER)

\* C18: in every table jie_times_from_kasi_or_calc returns, on the computed
\* path and on the collaborator path (also when the query of the previous
\* year fails or leaves out daeseol and the entry comes from the root finder),
\* the previous year's daeseol is the 255-degree crossing in December of
\* year - 1 and is earlier than every other instant of the table.
C18_PrevDaeseol ==
    pc = "jie12_done" /\ ~jt.raised =>
        LET e == jt.terms[PREV_DAESEOL]
        IN  /\ e.deg = 255
            /\ DateOf(e.t)[1] = inp.year - 1 /\ DateOf(e.t)[2] = 12
            /\ \A name \in ToSet(JIE_ORDER) : DtLess(e.t, jt.terms[name].t)

\* the builder falls back: no key, a raising date query, or too few names
FallsBack ==
    \/ ~kasi.key
    \/ kasi.dates = "raise"
    \/ pc = "jie12_done" /\ Cardinality(ToSet(JIE_ORDER) \ kasi.missing) < 10
    \/ pc = "jie24_done" /\ Cardinality(ToSet(JIE24_ORDER) \ kasi.missing) < 18
\* the collaborator has a date for the term
HasDate(name) ==
    IF name = PREV_DAESEOL THEN kasi.prev = "ok" ELSE name \notin kasi.missing

\* C20: with no service key, a raising date query, or dates for fewer than 10
\* of the 12 major terms (18 of the 24 terms) the builder returns exactly the
\* computed table of the year, holding no collaborator value, and without a key
\* the collaborator is never called; with 10 (18) names or more the
\* collaborator path is used and only the terms it lacks are computed.  (Read
\* in the builder's favour: a term counts as lacking when the collaborator has
\* no date or no time of day for it.)
C20_FallbackThreshold ==
    pc \in {"jie12_done", "jie24_done"} =>
        /\ FallsBack =>
             /\ ~jt.raised
             /\ jt.terms = IF pc = "jie12_done" THEN CalcTable12(inp.year, kasi.shift)
                           ELSE CalcTable24(inp.year, kasi.shift)
             /\ \A name \in DOMAIN jt.terms : jt.terms[name].src = "root"
             /\ ~kasi.key => jt.calls = {}
        /\ ~FallsBack /\ ~jt.raised =>
             /\ <<"dates", inp.year>> \in jt.calls
             /\ \A name \in DOMAIN jt.terms :
                  jt.terms[name].src = "root" =>
                      ~HasDate(name) \/ kasi.events = "raise" \/ kasi.text = ""

\* C12: within one chart computation the term table of a calendar year and a
\* source path (builder and service key) is built at most once; no later step
\* builds a table that was already built.
C12_BuiltOnce ==
    pc \in {"today", "result", "caption", "dayun", "seun", "age", "wolun_year",
            "session_done"} =>
        \A k \in DOMAIN builds : builds[k] <= 1

\* C21: for a storage month branch (jin sul chuk mi) with at least one triad
\* partner among the visible branches and the triad's element equal to the day
\* stem's element, decide_geok returns <ten-god of the month branch's main
\* hidden stem>gyeok; and for a storage month branch it never returns
\* geonrokgyeok, yangingyeok, wolbigyeok or wolgeopgyeok.
C21_StorageSelfIdentical ==
    (pc = "geok_done" /\ inp.month_branch \in StorageBranches) =>
        /\ geok.label \notin SpecialLabels
        /\ (/\ TriadPartners[inp.month_branch] \cap ToSet(inp.branches_visible) # {}
            /\ MONTH_TO_SAMHAP_ELEM[inp.month_branch] = STEM_ELEM[inp.day_stem]) =>
              /\ geok.label =
                   ten_god_for_stem(inp.day_stem, BRANCH_MAIN_STEM[inp.month_branch]) \o "gyeok"
              /\ geok.tag = "jinsulchukmi"

C21_Witness ==
    /\ pc = "geok_done"
    /\ inp.month_branch = "sul" /\ inp.day_stem = "byeong"
    /\ "o" \in ToSet(inp.branches_visible)
    /\ "im" \in ToSet(inp.stems_visible)
    /\ geok.label = "siksingyeok"

\* C28: decide_geok returns a special label only when the month branch is one of
\* ja o myo yu in sin sa hae and its main hidden stem has the day stem's
\* element, and then from the special gate; the geonrokgyeok / yangingyeok
\* upgrade inside the in/sin/sa/hae group rule and the final fallback return are
\* never taken.
C28_SpecialOnlyFromGate ==
    pc = "geok_done" =>
        /\ geok.label \in SpecialLabels =>
              /\ inp.month_branch \in GateBranches
              /\ STEM_ELEM[BRANCH_MAIN_STEM[inp.month_branch]] = STEM_ELEM[inp.day_stem]
              /\ geok.tag = "teuksu"
        /\ geok.rule \notin {"rokji+jeonggwan", "rokji+pyeongwan"}
        /\ geok.tag # "fallback"

C28_Witness ==
    /\ pc = "geok_done"
    /\ inp.month_branch = "in" /\ inp.day_stem = "gap"
    /\ "sin" \in ToSet(inp.stems_visible)
    /\ geok.label = "geonrokgyeok" /\ geok.tag = "teuksu"

\* the orders four visible stems can be listed in
Perms4 == {q \in [1..4 -> 1..4] : \A i, j \in 1..4 : q[i] = q[j] => i = j}

\* C29: listing the same four visible stems in another order, all other fields
\* kept, does not change the label decide_geok returns.
C29_OrderIndependent ==
    pc = "geok_done" =>
        \A q \in Perms4 :
            decide_geok([inp EXCEPT !.stems_visible = [i \in 1..4 |-> inp.stems_visible[q[i]]]]).label
              = geok.label

\* position in the 60-cycle of the pillar CHEONGAN[g], MONTH_JI[b]
Pos60(g, b) ==
    CHOOSE n \in 0..59 : n % 10 = g /\ n % 12 = IndexOf(JIJI, MONTH_JI[b + 1])

\* C22: build_dayun_list_indices returns count entries; entry i has stem index
\* (g + dir*i) mod 10, branch index (b + dir*i) mod 12 and start age
\* a + 10*(i-1); neighbours are adjacent in the 60-cycle in the direction
\* chosen, ten years apart, and every entry has stem and branch of one parity.
C22_DayunStepping ==
    pc = "dayun_list_done" =>
        LET dir == IF inp.forward THEN 1 ELSE -1
            n == Len(dayun_list)
        IN  /\ n = inp.count
            /\ \A i \in 1..n :
                  /\ dayun_list[i].g_idx = (inp.month_gidx + dir * i) % 10
                  /\ dayun_list[i].b_idx = (inp.month_bidx + dir * i) % 12
                  /\ dayun_list[i].start_age = inp.start_age + 10 * (i - 1)
                  /\ dayun_list[i].g_idx % 2 = IndexOf(JIJI, MONTH_JI[dayun_list[i].b_idx + 1]) % 2
            /\ Pos60(dayun_list[1].g_idx, dayun_list[1].b_idx)
                  = (Pos60(inp.month_gidx, inp.month_bidx) + dir) % 60
            /\ \A i \in 1..(n - 1) :
                  /\ Pos60(dayun_list[i+1].g_idx, dayun_list[i+1].b_idx)
                        = (Pos60(dayun_list[i].g_idx, dayun_list[i].b_idx) + dir) % 60
                  /\ dayun_list[i+1].start_age - dayun_list[i].start_age = 10

C22_Witness ==
    /\ pc = "dayun_list_done"
    /\ ~inp.forward /\ inp.month_gidx = 2 /\ inp.month_bidx = 0 /\ inp.start_age = 3
    /\ dayun_list[1].g_idx = 1 /\ dayun_list[1].b_idx = 11
    /\ dayun_list[3].g_idx = 9 /\ dayun_list[3].b_idx = 9
    /\ dayun_list[10].start_age = 93

\* the date the collaborator gives for a term of the table of `year`
KasiDate(name, year) ==
    IF name = PREV_DAESEOL
    THEN kasi_get_24divisions_dates(year - 1, JIE_ORDER, {})["daeseol"]
    ELSE kasi_get_24divisions_dates(year, JIE_ORDER, {})[name]

\* C30: on the collaborator path of jie_times_from_kasi_or_calc, every term
\* (the 12 major terms and the previous year's daeseol) for which the
\* collaborator has a date and an event of that date with a time of day gets
\* exactly that date and time, and the events asked for are those of the
\* date's own year and month.  (Time texts that are no hh:mm time are left
\* out, in the builder's favour.)
C30_TimeOfDayUsed ==
    (/\ pc = "jie12_done" /\ ~FallsBack
     /\ kasi.events = "ok" /\ kasi.text = "10:17") =>
        /\ ~jt.raised
        /\ \A name \in TermNames :
              HasDate(name) =>
                  LET ymd == KasiDate(name, inp.year)
                  IN  /\ jt.terms[name].src = "kasi"
                      /\ jt.terms[name].t = DateTime(ymd[1], ymd[2], ymd[3], 10, 17, LOCAL_TZ)
                      /\ <<"events", ymd[1], ymd[2]>> \in jt.calls

\* C23: the instant find_longitude_time_local returns is the final midpoint
\* rounded to the nearest whole minute: 30 seconds or more past the minute
\* give the following minute, fewer give the current one.
C23_NearestMinute ==
    pc = "rf_done" =>
        LET mid == Mid(rf.a, rf.b)
            minute == IF mid % 60 >= 30 THEN mid \div 60 + 1 ELSE mid \div 60
        IN  rf.res = [t |-> rf.base + minute + LOCAL_TZ.off, tz |-> LOCAL_TZ]

\* 12:00 of the civil date of an entry of the daily cycle
NoonOf(item) ==
    DateTime(item.date_iso[1], item.date_iso[2], item.date_iso[3], 12, 0, inp.start_dt.tz)

\* the entries are on consecutive civil dates, each with the day pillar of its
\* date at 12:00, and neighbours are one step apart in the 60-cycle
IlunConsecutive ==
    /\ \A i \in 1..Len(ilun_list) :
          <<ilun_list[i].gan, ilun_list[i].ji>>
              = day_ganji_solar(NoonOf(ilun_list[i]), inp.k_anchor).ganji
    /\ \A i \in 1..(Len(ilun_list) - 1) :
          /\ NoonOf(ilun_list[i + 1]) = AddDays(NoonOf(ilun_list[i]), 1)
          /\ IndexOf(CHEONGAN, ilun_list[i + 1].gan)
                = (IndexOf(CHEONGAN, ilun_list[i].gan) + 1) % 10
          /\ IndexOf(JIJI, ilun_list[i + 1].ji) = (IndexOf(JIJI, ilun_list[i].ji) + 1) % 12

\* C24 as stated: build_ilun_strip returns one entry for every civil date of
\* the span, from the civil date of start_dt to the last civil date before
\* end_dt (the date of end_dt itself or the one before it), consecutive and
\* ascending, each with the day pillar of its date at 12:00.
C24_EveryCivilDate ==
    pc = "ilun_done" =>
        /\ Len(ilun_list) > 0
        /\ ilun_list[1].date_iso = DateOf(inp.start_dt)
        /\ ilun_list[Len(ilun_list)].date_iso
              \in {DateOf(inp.end_dt), DateOf(AddDays(inp.end_dt, -1))}
        /\ IlunConsecutive

MaxSpanDays == 40

\* C24 (amended): build_ilun_strip returns exactly one entry for every civil
\* date whose 12:00 instant lies in [start_dt, end_dt) and for no other date,
\* in ascending consecutive order, each with the day pillar of its date at
\* 12:00, so neighbours advance by one position of the 60-cycle.
C24_NoonInSpan ==
    pc = "ilun_done" =>
        /\ \A d \in 0..MaxSpanDays :
              LET noon == AddDays(ReplaceNoon(inp.start_dt), d)
              IN  (~DtLess(noon, inp.start_dt) /\ DtLess(noon, inp.end_dt))
                    <=> (\E i \in 1..Len(ilun_list) : ilun_list[i].date_iso = DateOf(noon))
        /\ \A i \in 1..Len(ilun_list) :
              /\ ~DtLess(NoonOf(ilun_list[i]), inp.start_dt)
              /\ DtLess(NoonOf(ilun_list[i]), inp.end_dt)
        /\ IlunConsecutive

\* a span that starts and ends after 12:00: the date of start_dt has no entry,
\* the date of end_dt has one
C24_Witness ==
    /\ pc = "ilun_done"
    /\ HourOf(inp.start_dt) >= 12 /\ HourOf(inp.end_dt) >= 12
    /\ Len(ilun_list) >= 28
    /\ ilun_list[1].date_iso = DateOf(AddDays(inp.start_dt, 1))
    /\ ilun_list[Len(ilun_list)].date_iso = DateOf(inp.end_dt)

\* one pillar is the successor of another in the 60-cycle
NextIn60(p, q) ==
    /\ IndexOf(CHEONGAN, q[1]) = (IndexOf(CHEONGAN, p[1]) + 1) % 10
    /\ IndexOf(JIJI, q[2]) = (IndexOf(JIJI, p[2]) + 1) % 12

\* C26: across every major-term instant (ipchun included, where the year stem
\* of the month-stem formula changes) the month pillar of
\* four_pillars_from_solar advances by exactly one position of the 60-cycle;
\* across January 1, inside the ja month, it does not change.
C26_MonthContinuity ==
    pc = "steps_done" =>
        IF inp.crossing = "jan1"
        THEN /\ fp_next.month_pillar = fp.month_pillar
             /\ fp.month_pillar[2] = "ja"
        ELSE /\ NextIn60(fp.month_pillar, fp_next.month_pillar)
             /\ fp_next.month_pillar[2] = JIE_TO_MONTH_JI[inp.crossing]
             /\ fp_next.m_gidx = (fp.m_gidx + 1) % 10
             /\ fp_next.m_bidx = (fp.m_bidx + 1) % 12

C26_Witness ==
    /\ pc = "steps_done" /\ inp.crossing = "ipchun" /\ YearOf(dt_solar) = 2024
    /\ fp.year_pillar = <<"gye", "myo">> /\ fp.month_pillar = <<"eul", "chuk">>
    /\ fp_next.year_pillar = <<"gap", "jin">> /\ fp_next.month_pillar = <<"byeong", "in">>

\* C27: from one two-hour slot to the next the hour pillar of
\* four_pillars_from_solar advances by exactly one position of the 60-cycle,
\* also from 21:00 to 23:00, where the day pillar changes; sidu_zi_start_gan
\* does not raise for the day stem and gives the stem with index
\* 2 * (day stem index mod 5), from which the hour stem is counted.
C27_HourContinuity ==
    pc = "steps_done" =>
        /\ NextIn60(fp.hour_pillar, fp_next.hour_pillar)
        /\ HourOf(dt_solar) = 21 => NextIn60(fp.day_pillar, fp_next.day_pillar)
        /\ HourOf(dt_solar) # 21 => fp_next.day_pillar = fp.day_pillar
        /\ \A p \in {fp, fp_next} :
              LET d_cidx == IndexOf(CHEONGAN, p.day_pillar[1])
              IN  /\ sidu_zi_start_gan(p.day_pillar[1]) # "ValueError"
                  /\ sidu_zi_start_gan(p.day_pillar[1]) = CHEONGAN[2 * (d_cidx % 5) + 1]
                  /\ IndexOf(CHEONGAN, p.hour_pillar[1])
                        = (2 * (d_cidx % 5) + IndexOf(JIJI, p.hour_pillar[2])) % 10

C27_Witness ==
    /\ pc = "steps_done" /\ HourOf(dt_solar) = 21
    /\ DateOf(dt_solar) = <<2023, 12, 31>>
    /\ fp.day_pillar[1] \in {"mu", "gye"} /\ fp.hour_pillar = <<"gye", "hae">>
    /\ fp_next.day_pillar[1] \in {"gap", "gi"} /\ fp_next.hour_pillar = <<"gap", "ja">>

\* C25: two inputs that denote one instant with different UTC offsets get the
\* same year, month, day and hour pillars from
\* four_pillars_from_solar(to_solar_time(input)).
C25_OffsetIndependent ==
    pc = "offsets_done" =>
        /\ fp_next.year_pillar = fp.year_pillar
        /\ fp_next.month_pillar = fp.month_pillar
        /\ fp_next.day_pillar = fp.day_pillar
        /\ fp_next.hour_pillar = fp.hour_pillar

====
